---- MODULE Spec2Model ----
(***************************************************************************)
(* Verification model of the SailingCup targeting and actuation code.      *)
(*                                                                         *)
(* Components, each with its own next-state relation and specification:    *)
(*   SpecCam     - mods/Cap.py      Camera: capture thread, get_frame,     *)
(*                                  release                                *)
(*   SpecChassis - mods/Chassis.py  Chassis: self_test, calibrate_gyro,    *)
(*                                  turn                                   *)
(*   SpecFCS     - mods/FireControlSystem.py  _main_loop with the tracker  *)
(*                                  (mods/FireControl.py) and the gun      *)
(*                                  (mods/Gun.py)                          *)
(*   SpecMain    - main.py          MainController.run                     *)
(***************************************************************************)
EXTENDS Integers, Sequences, FiniteSets, TLC

(***************************************************************************)
(* Bounds of the model.                                                    *)
(***************************************************************************)
\* frames the capture device delivers before it only fails reads
MaxFrames == 4
\* threads calling Camera.get_frame
NumCallers == 2
\* lines written to or read from the chassis serial link
MaxLink == 6
\* start() calls after the first in one run, and the lines the link may carry more for
\* each start() after the first
MaxRestarts == 1
MaxRestartLink == 4
\* detector runs (calls of FireControl.detect / detection tasks of main.py)
MaxCycles == 2
\* passes of main.py's run() loop that obtain a frame
MaxRunCycles == 4
\* passes of run(), and lines on the chassis link, in front of a scene
\* without a target
MaxSearchCycles == 8
MaxSearchLink == 8
\* seconds of wall-clock time that pass
MaxTime == 6
\* fallback ids one run of the tracker hands out
MaxFallbackIds == 3
\* sockets a VideoStreamSender creates, and sendall calls it makes
MaxSockets == 3
MaxWire == 4
\* frames a newly constructed Camera's thread counts
MaxNewFrames == 8

(***************************************************************************)
(* Program constants.                                                      *)
(***************************************************************************)
\* Camera.QUEUE_SIZE
QUEUE_SIZE == 2
\* Chassis.MAX_ANGLE, Chassis.MIN_ANGLE
MAX_ANGLE == 180
MIN_ANGLE == -180
\* Gun.__init__: steps_per_degree
STEPS_PER_DEGREE == 100
\* Gun.is_aimed: threshold, in degrees
GUN_AIM_THRESHOLD == 1
\* FireControl.detect: samples kept per track
HISTORY_CAP == 10
\* main.py: AIM_THRESHOLD, SEARCH_ANGLE (degrees), DETECTION_AVERAGE_COUNT
AIM_THRESHOLD == 2
SEARCH_ANGLE == 25
DETECTION_AVERAGE_COUNT == 3
\* mods/MainController._aim_at_target: abs(chassis_angle) < 10
CHASSIS_AIM_LIMIT == 10
\* FireControl.cleanup_tracks: seconds without a sample before a track expires
TRACK_TIMEOUT == 5
\* main.py: the image the AngleCalculator assumes
IMAGE_WIDTH == 1920
IMAGE_HEIGHT == 1080
\* mods/Cap.py: the frames Camera hands to FireControlSystem and to
\* mods/MainController
DEFAULT_WIDTH == 1280
DEFAULT_HEIGHT == 720
\* mods/Cap.py: FPS_CALC_INTERVAL
FPS_CALC_INTERVAL == 30
\* StepperDebugTool: max_retries of the constructor
MAX_RETRIES == 3

(***************************************************************************)
(* Angles are kept exactly, as integers in units of 1/19200 degree: every   *)
(* pixel-to-angle conversion of the repository yields a multiple of 1/768  *)
(* degree for the pixel sums x1+x2, y1+y2, and the two-decimal angles of   *)
(* main.py's TURN commands are multiples of 1/100 degree.  Bounding boxes  *)
(* are <<x1, y1, x2, y2>>.                                                 *)
(***************************************************************************)
Deg(d) == d * 19200

Abs(a) == IF a < 0 THEN -a ELSE a

Max(a, b) == IF a >= b THEN a ELSE b
Min(a, b) == IF a <= b THEN a ELSE b

VARIABLES
  \* ---- mods/Cap.py: Camera ----
  frame_queue,   \* Camera.frame_queue: the queued frames, oldest first
  running,       \* Camera.running
  capPc,         \* position of the capture thread in _capture_thread
  capFrame,      \* the frame cap.read() returned to the capture thread (0: none)
  acquired,      \* number of frames cap.read() has returned so far
  discarded,     \* frame removed by the capture thread's own get() in this push (0: none)
  capState,      \* the capture device handle: "open" or "released"
  relPc,         \* position of the caller of Camera.release
  conPc,         \* per caller: position in Camera.get_frame
  conRet,        \* per caller: last result of get_frame (0: None, -1: ValueError)
  acqAtGet,      \* per caller: value of acquired when the frame conRet was obtained (0: no frame)
  \* ---- mods/Chassis.py: Chassis ----
  gyro_calibrated,  \* Chassis.gyro_calibrated
  chPc,             \* position of the caller inside self_test / calibrate_gyro
  chassisLink,      \* Chassis.serial: the lines written (tx) and read (rx), in order
  directCalibrate,  \* calibrate_gyro has been called directly, not from self_test
  linkSilent,       \* the chassis device has stopped sending lines
  chResult,         \* outcome of the last Chassis call
  \* ---- mods/FireControl.py: FireControl ----
  now,              \* time.time(), in seconds
  track_history,    \* FireControl.track_history: track id -> samples [t, bbox]
  next_id,          \* FireControl.next_id
  \* ---- mods/Gun.py: Gun ----
  current_angle,    \* Gun.current_angle
  target_angle,     \* Gun.target_angle
  gunSteps,         \* the position last given to the stepper's move_to, in steps
  fire_pin,         \* level of the fire GPIO pin: 0 LOW, 1 HIGH
  \* ---- mods/FireControlSystem.py: FireControlSystem ----
  fcs_running,      \* FireControlSystem.running
  startPc,          \* position of the caller of FireControlSystem.start
  fcsPc,            \* position of the main-loop thread ("none": not started)
  cycles,           \* number of detector runs so far
  detections,       \* _main_loop: the detections of the current cycle
  target,           \* _process_detections: the chosen target (<<>>: none)
  chassis_angle,    \* _process_detections: chassis_angle of the current cycle
  gun_angle,        \* _process_detections: gun_angle of the current cycle
  aimed,            \* _process_detections: what gun.is_aimed() returned
  \* ---- main.py: MainController (it drives the chassis link as serial_a,
  \*      the stepper as gun_device and the fire pin through GPIOController)
  mainPc,           \* position of run()
  main_current_angle, \* MainController.current_angle: the search heading
  target_locked,    \* MainController.target_locked
  search_mode,      \* MainController.search_mode
  detection_queue,  \* YOLODetector.detection_queue: the last batches
  pendingTasks,     \* detection threads started by detect_async, not yet run
  angles,           \* run(): (x_angle, y_angle) of the cycle (<<>>: None)
  best_target,      \* process_detection: id of the chosen target (0: none)
  sightings,        \* per target id: in how many detector results it appeared
  pulses,           \* fire pulses in the current run of locked cycles
  lastCycle,        \* how the latest pass of run() ended
  controlGun,       \* how the latest call of control_gun went
  \* ---- mods/FireControlSystem.py: cleanup, mods/DeviceManager.py ----
  cleanupPc,        \* position of the caller of FireControlSystem.cleanup
  shutdownLog,      \* what cleanup has done so far, in order
  devices,          \* DeviceManager._devices: name -> the channel it holds, open or not
  \* ---- mods/TCP.py: VideoStreamSender ----
  sequence,         \* VideoStreamSender.sequence
  connected,        \* VideoStreamSender.connected
  sock,             \* VideoStreamSender.socket: 0 for None, else the k-th socket created
  wire,             \* the writes made by sendall, in order: socket, header sequence, outcome
  sendRet,          \* outcome of the last send_frame call
  \* ---- the pixel-to-angle conversions of the three control loops ----
  pixel,            \* the target centre last converted, <<cx, cy>>
  converted,        \* what each implementation made of it
  \* ---- mods/Cap.py: Camera.__init__ of a new Camera and the thread it starts
  ctorPc,           \* position of the constructor after thread.start()
  assigned,         \* the fields the constructor has assigned after thread.start()
  newPc,            \* position of the new capture thread
  newCount,         \* frame_count as the new thread has counted it
  newFault,         \* the field the new thread read before it was assigned
  \* ---- mods/FireControlSystem.py: start() called again ----
  restarts,         \* start() calls made after the first main-loop thread began
  staleLoops,       \* main-loop threads alive that self.thread no longer names
  \* ---- mods/Gun.py: adjust and is_aimed called directly ----
  lastAdjust,       \* how the most recent adjust() ended: "none", "ok", "failed"
  aimedRet,         \* what is_aimed() returned since then: "none", "true", "false"
  \* ---- stepper_debug_tool.py: StepperDebugTool ----
  toolPc,           \* where _connect_to_port stands
  toolTarget,       \* its port argument and the device behind that port
  debug_device,     \* the tool's DeviceManager entry "debug_device"
  tool_device,      \* TRUE iff self.device is set
  is_connected,
  is_moving,
  tool_port,        \* self.port
  connectRet,       \* what the last _connect_to_port returned
  autoPc,           \* where _autoconnect stands
  retry_count,
  available_ports,  \* what scan_ports returned to _autoconnect
  port_index,       \* the port of available_ports being tried
  autoRet           \* what the last _autoconnect returned

camVars == <<frame_queue, running, capPc, capFrame, acquired, discarded,
             capState, relPc, conPc, conRet, acqAtGet>>

chassisVars == <<gyro_calibrated, chPc, chassisLink, directCalibrate, chResult,
                 linkSilent>>

trackerVars == <<now, track_history, next_id>>

gunVars == <<current_angle, target_angle, gunSteps, fire_pin>>

fcsVars == <<fcs_running, startPc, fcsPc, cycles, detections, target,
             chassis_angle, gun_angle, aimed>>

mainVars == <<mainPc, main_current_angle, target_locked, search_mode,
              detection_queue, pendingTasks, angles, best_target, sightings,
              pulses, lastCycle, controlGun>>

shutdownVars == <<cleanupPc, shutdownLog, devices>>

senderVars == <<sequence, connected, sock, wire, sendRet>>

angleVars == <<pixel, converted>>

ctorVars == <<ctorPc, assigned, newPc, newCount, newFault>>

loopVars == <<restarts, staleLoops>>

\* the state outside the six components and their shutdown
gunCallVars == <<lastAdjust, aimedRet>>

toolVars == <<toolPc, toolTarget, debug_device, tool_device, is_connected,
              is_moving, tool_port, connectRet, autoPc, retry_count,
              available_ports, port_index, autoRet>>

moreVars == <<gunCallVars, toolVars>>

extraVars == <<angleVars, ctorVars, loopVars, moreVars>>

vars == <<camVars, chassisVars, trackerVars, gunVars, fcsVars, mainVars,
          shutdownVars, senderVars, extraVars>>

\* the state of the components other than Camera
otherThanCam == <<chassisVars, trackerVars, gunVars, fcsVars, mainVars,
                  shutdownVars, senderVars, extraVars>>

\* the lines the chassis link may carry: MaxLink, and MaxRestartLink more
\* for each start() after the first
LinkBound == MaxLink + MaxRestartLink * restarts

\* the state of the components other than Chassis
otherThanChassis == <<camVars, trackerVars, gunVars, fcsVars, mainVars,
                      shutdownVars, senderVars, extraVars>>

Callers == 1..NumCallers

(***************************************************************************)
(* queue.Queue of the standard library, as Camera uses it.                 *)
(***************************************************************************)
\* Queue.full()
QueueFull(q) == Len(q) >= QUEUE_SIZE

\* Queue.empty()
QueueEmpty(q) == Len(q) = 0

\* a get() that hands out the newest element instead of the oldest
QueueGetNewest(q) == [item |-> q[Len(q)], rest |-> SubSeq(q, 1, Len(q) - 1)]

\* Queue.get(): removes and returns the element queued first; the caller
\* waits while the queue is empty (the actions guard on ~QueueEmpty)
QueueGet(q) == [item |-> Head(q), rest |-> Tail(q)]

\* Queue.put(): appends; the caller waits while the queue is full
QueuePut(q, f) == Append(q, f)

(***************************************************************************)
(* Camera._capture_thread                                                  *)
(***************************************************************************)
\* while self.running:
CapLoop ==
  /\ capPc = "loop"
  /\ capPc' = IF running THEN "grab1" ELSE "exit"
  /\ UNCHANGED <<frame_queue, running, capFrame, acquired, discarded,
                 capState, relPc, conPc, conRet, acqAtGet>>
  /\ UNCHANGED otherThanCam

\* for _ in range(2): self.cap.grab()
CapGrab ==
  /\ capPc \in {"grab1", "grab2"}
  /\ capPc' = IF capPc = "grab1" THEN "grab2" ELSE "read"
  /\ UNCHANGED <<frame_queue, running, capFrame, acquired, discarded,
                 capState, relPc, conPc, conRet, acqAtGet>>
  /\ UNCHANGED otherThanCam

\* ret, frame = self.cap.read(), ret true: frame_count bookkeeping, then
\* the push starts at the full() test
CapReadOk ==
  /\ capPc = "read"
  /\ acquired < MaxFrames
  /\ acquired' = acquired + 1
  /\ capFrame' = acquired + 1
  /\ capPc' = "full"
  /\ UNCHANGED <<frame_queue, running, discarded, capState, relPc,
                 conPc, conRet, acqAtGet>>
  /\ UNCHANGED otherThanCam

\* ret false: warning, continue
CapReadFail ==
  /\ capPc = "read"
  /\ capPc' = "loop"
  /\ UNCHANGED <<frame_queue, running, capFrame, acquired, discarded,
                 capState, relPc, conPc, conRet, acqAtGet>>
  /\ UNCHANGED otherThanCam

\* if self.frame_queue.full():
CapFull ==
  /\ capPc = "full"
  /\ capPc' = IF QueueFull(frame_queue) THEN "get" ELSE "put"
  /\ UNCHANGED <<frame_queue, running, capFrame, acquired, discarded,
                 capState, relPc, conPc, conRet, acqAtGet>>
  /\ UNCHANGED otherThanCam

\* self.frame_queue.get()
CapDiscard ==
  /\ capPc = "get"
  /\ ~QueueEmpty(frame_queue)
  /\ discarded' = QueueGet(frame_queue).item
  /\ frame_queue' = QueueGet(frame_queue).rest
  /\ capPc' = "put"
  /\ UNCHANGED <<running, capFrame, acquired, capState, relPc,
                 conPc, conRet, acqAtGet>>
  /\ UNCHANGED otherThanCam

\* self.frame_queue.put(frame)
CapPut ==
  /\ capPc = "put"
  /\ ~QueueFull(frame_queue)
  /\ frame_queue' = QueuePut(frame_queue, capFrame)
  /\ capFrame' = 0
  /\ discarded' = 0
  /\ capPc' = "loop"
  /\ UNCHANGED <<running, acquired, capState, relPc, conPc, conRet, acqAtGet>>
  /\ UNCHANGED otherThanCam

(***************************************************************************)
(* Camera.get_frame                                                        *)
(***************************************************************************)
\* quality check, then: if not self.frame_queue.empty()
GetFrameCheck(c, quality) ==
  /\ conPc[c] = "idle"
  /\ IF quality \notin {"HIGH", "LOW"}
       THEN /\ conRet' = [conRet EXCEPT ![c] = -1]
            /\ acqAtGet' = [acqAtGet EXCEPT ![c] = 0]
            /\ UNCHANGED conPc
       ELSE IF QueueEmpty(frame_queue)
         THEN /\ conRet' = [conRet EXCEPT ![c] = 0]
              /\ acqAtGet' = [acqAtGet EXCEPT ![c] = 0]
              /\ UNCHANGED conPc
         ELSE /\ conPc' = [conPc EXCEPT ![c] = "get"]
              /\ UNCHANGED <<conRet, acqAtGet>>
  /\ UNCHANGED <<frame_queue, running, capPc, capFrame, acquired, discarded,
                 capState, relPc>>
  /\ UNCHANGED otherThanCam

\* frame = self.frame_queue.get(); return frame (resized for LOW)
GetFrameGet(c) ==
  /\ conPc[c] = "get"
  /\ ~QueueEmpty(frame_queue)
  /\ conRet' = [conRet EXCEPT ![c] = QueueGet(frame_queue).item]
  /\ acqAtGet' = [acqAtGet EXCEPT ![c] = acquired]
  /\ frame_queue' = QueueGet(frame_queue).rest
  /\ conPc' = [conPc EXCEPT ![c] = "idle"]
  /\ UNCHANGED <<running, capPc, capFrame, acquired, discarded, capState, relPc>>
  /\ UNCHANGED otherThanCam

(***************************************************************************)
(* Camera.release                                                          *)
(***************************************************************************)
\* self.running = False
ReleaseStop ==
  /\ relPc = "idle"
  /\ running' = FALSE
  /\ relPc' = "join"
  /\ UNCHANGED <<frame_queue, capPc, capFrame, acquired, discarded, capState,
                 conPc, conRet, acqAtGet>>
  /\ UNCHANGED otherThanCam

\* a join that returns without waiting for the thread
JoinNoWait == TRUE

\* self.thread.join() returns once the capture thread has left its function
JoinReturns == capPc = "exit"

ReleaseJoin ==
  /\ relPc = "join"
  /\ JoinReturns
  /\ relPc' = "devrel"
  /\ UNCHANGED <<frame_queue, running, capPc, capFrame, acquired, discarded,
                 capState, conPc, conRet, acqAtGet>>
  /\ UNCHANGED otherThanCam

\* self.cap.release()
ReleaseDevice ==
  /\ relPc = "devrel"
  /\ capState' = "released"
  /\ relPc' = "done"
  /\ UNCHANGED <<frame_queue, running, capPc, capFrame, acquired, discarded,
                 conPc, conRet, acqAtGet>>
  /\ UNCHANGED otherThanCam

(***************************************************************************)
(* Chassis (mods/Chassis.py)                                               *)
(***************************************************************************)
\* one line on the serial link: a command written or a response read
Tx(cmd, arg) == [dir |-> "tx", data |-> cmd, arg |-> arg]
Rx(line) == [dir |-> "rx", data |-> line, arg |-> 0]

\* what the chassis device may answer: the two sentinels, or any other
\* line (an empty line after the read timeout included)
Responses == {"SELF_TEST_COMPLETE", "GYRO_CALIBRATED", "OTHER"}

\* requested turn angles
TurnAngles == {Deg(-270), Deg(-90), 0, Deg(45), Deg(270)}


\* if response == "SELF_TEST_COMPLETE"
IsSelfTestComplete(response) == response = "SELF_TEST_COMPLETE"

\* if response == "GYRO_CALIBRATED"
IsGyroCalibrated(response) == response = "GYRO_CALIBRATED"

\* angle = max(self.MIN_ANGLE, min(self.MAX_ANGLE, angle))
ClampChassis(angle) == Max(Deg(MIN_ANGLE), Min(Deg(MAX_ANGLE), angle))

\* self_test: self.send_command("ROTATE 360"), then wait for the sentinel
SelfTestStart ==
  /\ chPc = "idle"
  /\ Len(chassisLink) < LinkBound
  /\ chassisLink' = Append(chassisLink, Tx("ROTATE 360", 0))
  /\ chPc' = "st_wait"
  /\ chResult' = "running"
  /\ UNCHANGED <<gyro_calibrated, directCalibrate, linkSilent>>
  /\ UNCHANGED otherThanChassis

\* self_test: response = self.serial.readline().decode().strip(); on the
\* sentinel leave the loop and call calibrate_gyro, else sleep and read on
SelfTestRead(response) ==
  /\ chPc = "st_wait"
  /\ ~linkSilent
  /\ Len(chassisLink) < LinkBound
  /\ chassisLink' = Append(chassisLink, Rx(response))
  /\ chPc' = IF IsSelfTestComplete(response) THEN "cal_send" ELSE "st_wait"
  /\ UNCHANGED <<gyro_calibrated, directCalibrate, linkSilent, chResult>>
  /\ UNCHANGED otherThanChassis

\* calibrate_gyro called from self_test: self.send_command("CALIBRATE_GYRO")
CalibrateFromSelfTest ==
  /\ chPc = "cal_send"
  /\ Len(chassisLink) < LinkBound
  /\ chassisLink' = Append(chassisLink, Tx("CALIBRATE_GYRO", 0))
  /\ chPc' = "cal_wait"
  /\ UNCHANGED <<gyro_calibrated, directCalibrate, linkSilent, chResult>>
  /\ UNCHANGED otherThanChassis

\* calibrate_gyro called by a user of Chassis: it is a public method
CalibrateDirect ==
  /\ chPc = "idle"
  /\ Len(chassisLink) < LinkBound
  /\ chassisLink' = Append(chassisLink, Tx("CALIBRATE_GYRO", 0))
  /\ chPc' = "cal_wait"
  /\ directCalibrate' = TRUE
  /\ UNCHANGED linkSilent
  /\ chResult' = "running"
  /\ UNCHANGED gyro_calibrated
  /\ UNCHANGED otherThanChassis

\* calibrate_gyro: read a line; on the sentinel set gyro_calibrated and
\* return (self_test returns with it), else sleep and read on
CalibrateRead(response) ==
  /\ chPc = "cal_wait"
  /\ ~linkSilent
  /\ Len(chassisLink) < LinkBound
  /\ chassisLink' = Append(chassisLink, Rx(response))
  /\ IF IsGyroCalibrated(response)
       THEN /\ gyro_calibrated' = TRUE
            /\ chPc' = "idle"
            /\ chResult' = "ok"
       ELSE UNCHANGED <<gyro_calibrated, chPc, chResult>>
  /\ UNCHANGED <<directCalibrate, linkSilent>>
  /\ UNCHANGED otherThanChassis

\* self_test / calibrate_gyro: readline returns '' when its timeout expires
\* without a line; '' is no sentinel, so sleep and read again
ChassisReadTimeout ==
  /\ chPc \in {"st_wait", "cal_wait"}
  /\ UNCHANGED vars

\* the chassis device stops sending lines (it is switched off, or its
\* cable is pulled): from now on every readline times out
ChassisGoesSilent ==
  /\ ~linkSilent
  /\ linkSilent' = TRUE
  /\ UNCHANGED <<gyro_calibrated, chPc, chassisLink, directCalibrate, chResult>>
  /\ UNCHANGED otherThanChassis

\* the serial port raises in write or readline: self_test / calibrate_gyro
\* log the error and re-raise
ChassisSerialError ==
  /\ chPc \in {"st_wait", "cal_send", "cal_wait"}
  /\ chPc' = "idle"
  /\ chResult' = "SerialException"
  /\ UNCHANGED <<gyro_calibrated, chassisLink, directCalibrate, linkSilent>>
  /\ UNCHANGED otherThanChassis

\* turn(angle)
Turn(angle) ==
  /\ chPc = "idle"
  /\ IF ~gyro_calibrated
       THEN /\ chResult' = "RuntimeError"
            /\ UNCHANGED chassisLink
       ELSE /\ Len(chassisLink) < LinkBound
            /\ chassisLink' = Append(chassisLink, Tx("TURN", ClampChassis(angle)))
            /\ chResult' = "ok"
  /\ UNCHANGED <<gyro_calibrated, chPc, directCalibrate, linkSilent>>
  /\ UNCHANGED otherThanChassis

ChassisInit ==
  /\ gyro_calibrated = FALSE
  /\ chPc = "idle"
  /\ chassisLink = <<>>
  /\ directCalibrate = FALSE
  /\ linkSilent = FALSE
  /\ chResult = "none"

NextChassis ==
  \/ SelfTestStart
  \/ \E response \in Responses : SelfTestRead(response)
  \/ CalibrateFromSelfTest
  \/ CalibrateDirect
  \/ \E response \in Responses : CalibrateRead(response)
  \/ ChassisSerialError
  \/ \E angle \in TurnAngles : Turn(angle)


\* int(x) for the quotient n/d, d > 0: truncation toward zero
TruncDiv(n, d) == IF n >= 0 THEN n \div d ELSE -((-n) \div d)

\* a box of the detector: class, id (0: box.id is None), bounding box of
\* half-size 30 around (cx, cy), confidence in percent
Box(cls, id, cx, cy, conf) ==
  [cls |-> cls, id |-> id, bbox |-> <<cx - 30, cy - 30, cx + 30, cy + 30>>,
   conf |-> conf]

(***************************************************************************)
(* FireControl (mods/FireControl.py): the tracker                          *)
(***************************************************************************)
RECURSIVE SumOver(_, _)
\* sum of the integers f[1] + ... + f[n] of a sequence f
SumOver(f, n) == IF n = 0 THEN 0 ELSE f[n] + SumOver(f, n - 1)

\* n * sum(v^2) - (sum v)^2 of a sequence v: n^2 times its variance
ScaledVariance(v) ==
  LET n == Len(v)
  IN  n * SumOver([i \in 1..n |-> v[i] * v[i]], n)
        - SumOver(v, n) * SumOver(v, n)

RECURSIVE LeqFrac(_, _, _, _)
\* a/b <= c/d for a, c >= 0 and b, d > 0, by Euclid's algorithm (the
\* products a*d and c*b would not fit the integers of the checker)
LeqFrac(a, b, c, d) ==
  IF a \div b # c \div d THEN a \div b < c \div d
  ELSE IF a % b = 0 THEN TRUE
  ELSE IF c % d = 0 THEN FALSE
  ELSE LeqFrac(d, c % d, b, a % b)

\* k * n <= 5 * (sqrt(vx) + sqrt(vy)), decided exactly in integers: with
\* a = (k*n)^2 - 25*(vx + vy) it is a <= 0 or a^2 <= (50*vx) * (50*vy)
RatioAtLeast(k, n, vx, vy) ==
  LET a == (k * n) * (k * n) - 25 * (vx + vy)
  IN  \/ a <= 0
      \/ vx > 0 /\ vy > 0 /\ LeqFrac(a, 50 * vx, 50 * vy, a)

\* 5 * sqrt(v) / n >= 1000 for one coordinate: min(avg_std / 50, 1) is 1
Saturated(n, vx, vy) == vx >= 40000 * n * n \/ vy >= 40000 * n * n

RECURSIVE FloorRatio(_, _, _, _, _)
\* the largest k in lo..hi with RatioAtLeast(k, ...), which holds at lo
FloorRatio(lo, hi, n, vx, vy) ==
  IF lo = hi THEN lo
  ELSE LET mid == (lo + hi + 1) \div 2
       IN  IF RatioAtLeast(mid, n, vx, vy)
             THEN FloorRatio(mid, hi, n, vx, vy)
             ELSE FloorRatio(lo, mid - 1, n, vx, vy)

\* a stability that is computed from a single sample as well
StabilityNoMinimum(history) ==
  LET n  == Len(history)
      sx == [i \in 1..n |-> history[i].bbox[1] + history[i].bbox[3]]
      sy == [i \in 1..n |-> history[i].bbox[2] + history[i].bbox[4]]
      vx == ScaledVariance(sx)
      vy == ScaledVariance(sy)
  IN  IF Saturated(n, vx, vy) THEN 0
      ELSE 1000 - FloorRatio(0, 1000, n, vx, vy)

\* _calculate_stability, in thousandths rounded up (so that stability > t
\* is exact for every t that is a multiple of 0.001): 0 with fewer than 2
\* samples, else 1 - min(mean(std of the centre points) / 50, 1).  The
\* centre sums x1+x2, y1+y2 are twice the centre points, so n*std of a
\* centre coordinate is sqrt(ScaledVariance)/2 and
\* 1000 * avg_std / 50 = 5 * (sqrt(vx) + sqrt(vy)) / n.
Stability(history) ==
  LET n  == Len(history)
      sx == [i \in 1..n |-> history[i].bbox[1] + history[i].bbox[3]]
      sy == [i \in 1..n |-> history[i].bbox[2] + history[i].bbox[4]]
      vx == ScaledVariance(sx)
      vy == ScaledVariance(sy)
  IN  IF n < 2 THEN 0
      ELSE IF Saturated(n, vx, vy) THEN 0
      ELSE 1000 - FloorRatio(0, 1000, n, vx, vy)

\* an append that keeps every sample
AppendSampleUncapped(th, id, sample) ==
  LET old == IF id \in DOMAIN th THEN th[id] ELSE <<>>
  IN  [k \in (DOMAIN th) \cup {id} |-> IF k = id THEN Append(old, sample) ELSE th[k]]

\* self.track_history[track_id].append(...); keep the last 10 samples
AppendSample(th, id, sample) ==
  LET old == IF id \in DOMAIN th THEN th[id] ELSE <<>>
      new == Append(old, sample)
      cut == IF Len(new) > HISTORY_CAP THEN Tail(new) ELSE new
  IN  [k \in (DOMAIN th) \cup {id} |-> IF k = id THEN cut ELSE th[k]]

RECURSIVE DetectBoxes(_, _, _, _, _)
\* FireControl.detect: the loop over the boxes of one result, at time t;
\* yields the new track_history, next_id and the list of detections
DetectBoxes(boxes, t, th, nid, dets) ==
  IF boxes = <<>> THEN [th |-> th, next_id |-> nid, detections |-> dets]
  ELSE LET box == Head(boxes)
       IN  IF box.cls # 0
             THEN DetectBoxes(Tail(boxes), t, th, nid, dets)
             ELSE LET track_id == IF box.id # 0 THEN box.id ELSE nid
                      nid2 == IF box.id # 0 THEN nid ELSE nid + 1
                      th2 == AppendSample(th, track_id, [t |-> t, bbox |-> box.bbox])
                      det == [id |-> track_id, bbox |-> box.bbox, cls |-> 0,
                              confidence |-> box.conf, timestamp |-> t,
                              stability |-> Stability(th2[track_id])]
                  IN  DetectBoxes(Tail(boxes), t, th2, nid2, Append(dets, det))

\* by how many seconds the clock is seen to advance in one step: exactly
\* the track timeout, or more
TimeSteps == {TRACK_TIMEOUT, TRACK_TIMEOUT + 1}

\* a cleanup_tracks that also drops the tracks exactly 5 seconds old
CleanupTracksAtTimeout(th, t) ==
  LET expired_ids == {k \in DOMAIN th : t - th[k][Len(th[k])].t >= TRACK_TIMEOUT}
  IN  [k \in (DOMAIN th) \ expired_ids |-> th[k]]

\* FireControl.cleanup_tracks at time t: drop the tracks whose last sample
\* is more than 5 seconds old
CleanupTracks(th, t) ==
  LET expired_ids == {k \in DOMAIN th : t - th[k][Len(th[k])].t > TRACK_TIMEOUT}
  IN  [k \in (DOMAIN th) \ expired_ids |-> th[k]]

(***************************************************************************)
(* Gun (mods/Gun.py)                                                       *)
(***************************************************************************)
\* position errors the stepper may report, in steps
ErrorSteps == {0, 100, 101, -150}

\* angle = max(-30, min(30, angle))
ClampGun(angle) == Max(Deg(-30), Min(Deg(30), angle))

\* target_steps = int(angle * self.steps_per_degree)
TargetSteps(angle) == TruncDiv(angle * STEPS_PER_DEGREE, Deg(1))

\* an aim test that does not look at the device's position error
IsAimedIgnoringError(raises, in_position, error, current, targetAngle) ==
  /\ ~raises
  /\ in_position
  /\ Abs(current - targetAngle) <= Deg(GUN_AIM_THRESHOLD)

\* Gun.is_aimed: the device is in position, its position error converted
\* to degrees is within the threshold and so is |current - target|; False
\* when reading the device raises
IsAimed(raises, in_position, error, current, targetAngle) ==
  /\ ~raises
  /\ in_position
  /\ Abs(error) <= GUN_AIM_THRESHOLD * STEPS_PER_DEGREE
  /\ Abs(current - targetAngle) <= Deg(GUN_AIM_THRESHOLD)

\* the angles adjust() is called with: -0.5, 0.5, 10 and 40 degrees
AdjustAngles == {-9600, 9600, Deg(10), Deg(40)}

\* how a call of adjust() may end: normally, with a device error before the
\* stepper was commanded (set_speed, set_acceleration, move_to), or with
\* one while it waits for is_in_position
AdjustOutcomes == {"ok", "move_raises", "wait_raises"}

\* Gun.adjust(angle), the whole call: target_angle is set first, the
\* stepper is commanded, and current_angle is set after the wait; an
\* exception is logged and raised again
GunAdjust(angle, outcome) ==
  /\ target_angle' = ClampGun(angle)
  /\ gunSteps' = IF outcome = "move_raises" THEN gunSteps
                 ELSE TargetSteps(ClampGun(angle))
  /\ current_angle' = IF outcome = "ok" THEN ClampGun(angle) ELSE current_angle
  /\ lastAdjust' = IF outcome = "ok" THEN "ok" ELSE "failed"
  /\ aimedRet' = "none"
  /\ UNCHANGED fire_pin
  /\ UNCHANGED <<camVars, shutdownVars, senderVars, angleVars, ctorVars, loopVars, toolVars,
                 chassisVars, trackerVars, fcsVars, mainVars>>

\* Gun.is_aimed(), the whole call
GunIsAimed(raises, in_position, error) ==
  /\ aimedRet' = IF IsAimed(raises, in_position, error, current_angle, target_angle)
                 THEN "true" ELSE "false"
  /\ UNCHANGED <<lastAdjust, gunVars>>
  /\ UNCHANGED <<camVars, shutdownVars, senderVars, angleVars, ctorVars, loopVars, toolVars,
                 chassisVars, trackerVars, fcsVars, mainVars>>

(***************************************************************************)
(* StepperDebugTool (stepper_debug_tool.py): connecting                    *)
(***************************************************************************)
\* the serial ports of the machine
Ports == {"ttyUSB0", "ttyUSB1", "ttyACM0"}

\* what is behind a port: a stepper that answers, nothing (the port does
\* not open), or something that opens and does not answer
DeviceKinds == {"healthy", "absent", "mute"}

\* what scan_ports may return
ScanResults == { <<>>, <<"ttyUSB0">>, <<"ttyUSB1", "ttyACM0">> }

\* the state no tool action changes but the tool's own
otherThanTool ==
  <<camVars, shutdownVars, senderVars, angleVars, ctorVars, loopVars,
    gunCallVars, chassisVars, trackerVars, gunVars, fcsVars, mainVars>>

\* DeviceManager.close_all: an open serial device is closed; the entry
\* stays in _devices
CloseAll(entry) ==
  IF entry = <<>> THEN entry ELSE <<[entry[1] EXCEPT !.open = FALSE]>>

\* _connect_to_port(port), up to register_serial: an existing connection is
\* disconnected first
ToolConnectEnter(port, kind) ==
  /\ toolPc = "idle"
  /\ toolTarget' = [port |-> port, kind |-> kind]
  /\ connectRet' = "none"
  /\ toolPc' = "register"
  /\ IF is_connected
       THEN /\ debug_device' = CloseAll(debug_device)
            /\ tool_device' = FALSE
            /\ is_connected' = FALSE
       ELSE UNCHANGED <<debug_device, tool_device, is_connected>>
  /\ UNCHANGED <<is_moving, tool_port>>

\* tool._connect_to_port(port) called by connect() without autoconnect
ToolConnectToPort(port, kind) ==
  /\ autoPc = "idle"
  /\ ToolConnectEnter(port, kind)
  /\ UNCHANGED <<autoPc, retry_count, available_ports, port_index, autoRet>>
  /\ UNCHANGED otherThanTool

\* device_manager.register_serial("debug_device", port, baudrate):
\* ValueError when the name is registered already, the error of
\* serial.Serial when the port does not open; _connect_to_port logs either
\* and returns False
ToolRegister ==
  /\ toolPc = "register"
  /\ IF debug_device # <<>> \/ toolTarget.kind = "absent"
       THEN /\ connectRet' = "false"
            /\ toolPc' = "idle"
            /\ UNCHANGED debug_device
       ELSE /\ debug_device' = <<[port |-> toolTarget.port, open |-> TRUE]>>
            /\ toolPc' = "device"
            /\ UNCHANGED connectRet
  /\ UNCHANGED <<toolTarget, tool_device, is_connected, is_moving, tool_port>>
  /\ UNCHANGED <<autoPc, retry_count, available_ports, port_index, autoRet>>
  /\ UNCHANGED otherThanTool

\* self.device = Device(device_params=...)
ToolMakeDevice ==
  /\ toolPc = "device"
  /\ tool_device' = TRUE
  /\ toolPc' = "validate"
  /\ UNCHANGED <<toolTarget, debug_device, is_connected, is_moving, tool_port,
                 connectRet>>
  /\ UNCHANGED <<autoPc, retry_count, available_ports, port_index, autoRet>>
  /\ UNCHANGED otherThanTool

\* get_status(): {'error': ...} when not self.is_connected or when reading
\* self.device.is_in_position raises, else the status
StatusHasError == ~is_connected \/ toolTarget.kind = "mute"

\* _validate_device: if self.device: 'error' not in self.get_status()
ValidateDevice == tool_device /\ ~StatusHasError

\* _connect_to_port: if self._validate_device(): self.port = port;
\* self.is_connected = True; return True; else go on to disconnect()
ToolValidate(in_position) ==
  /\ toolPc = "validate"
  /\ is_moving' = IF tool_device /\ ~StatusHasError THEN ~in_position ELSE is_moving
  /\ IF ValidateDevice
       THEN /\ tool_port' = toolTarget.port
            /\ is_connected' = TRUE
            /\ connectRet' = "true"
            /\ toolPc' = "idle"
       ELSE /\ toolPc' = "disconnect"
            /\ UNCHANGED <<tool_port, is_connected, connectRet>>
  /\ UNCHANGED <<toolTarget, debug_device, tool_device>>
  /\ UNCHANGED <<autoPc, retry_count, available_ports, port_index, autoRet>>
  /\ UNCHANGED otherThanTool

\* _connect_to_port: self.disconnect(); return False.  disconnect() stops
\* and disables the device (an error is logged), closes the devices of the
\* manager and clears self.device and self.is_connected
ToolDisconnectReturn ==
  /\ toolPc = "disconnect"
  /\ debug_device' = CloseAll(debug_device)
  /\ tool_device' = FALSE
  /\ is_connected' = FALSE
  /\ connectRet' = "false"
  /\ toolPc' = "idle"
  /\ UNCHANGED <<toolTarget, is_moving, tool_port>>
  /\ UNCHANGED <<autoPc, retry_count, available_ports, port_index, autoRet>>
  /\ UNCHANGED otherThanTool

\* tool.disconnect() called between connection attempts
ToolDisconnect ==
  /\ toolPc = "idle"
  /\ autoPc = "idle"
  /\ debug_device' = CloseAll(debug_device)
  /\ tool_device' = FALSE
  /\ is_connected' = FALSE
  /\ UNCHANGED <<toolPc, toolTarget, is_moving, tool_port, connectRet>>
  /\ UNCHANGED <<autoPc, retry_count, available_ports, port_index, autoRet>>
  /\ UNCHANGED otherThanTool

\* connect() with autoconnect: _autoconnect() begins, retry_count = 0
ToolAutoconnect ==
  /\ toolPc = "idle"
  /\ autoPc = "idle"
  /\ autoPc' = "scan"
  /\ retry_count' = 0
  /\ autoRet' = "none"
  /\ UNCHANGED <<available_ports, port_index>>
  /\ UNCHANGED <<toolPc, toolTarget, debug_device, tool_device, is_connected,
                 is_moving, tool_port, connectRet>>
  /\ UNCHANGED otherThanTool

\* _autoconnect: while retry_count < self.max_retries: scan_ports(); with
\* no port found sleep and count a retry
ToolScan(ports) ==
  /\ autoPc = "scan"
  /\ IF retry_count >= MAX_RETRIES
       THEN /\ autoRet' = "false"
            /\ autoPc' = "idle"
            /\ UNCHANGED <<retry_count, available_ports, port_index>>
       ELSE IF ports = <<>>
         THEN /\ retry_count' = retry_count + 1
              /\ UNCHANGED <<autoPc, available_ports, port_index, autoRet>>
         ELSE /\ available_ports' = ports
              /\ port_index' = 1
              /\ autoPc' = "try"
              /\ UNCHANGED <<retry_count, autoRet>>
  /\ UNCHANGED <<toolPc, toolTarget, debug_device, tool_device, is_connected,
                 is_moving, tool_port, connectRet>>
  /\ UNCHANGED otherThanTool

\* _autoconnect: self._connect_to_port(port) for the next port found
ToolTryPort(kind) ==
  /\ autoPc = "try"
  /\ ToolConnectEnter(available_ports[port_index], kind)
  /\ autoPc' = "tried"
  /\ UNCHANGED <<retry_count, available_ports, port_index, autoRet>>
  /\ UNCHANGED otherThanTool

\* _autoconnect after _connect_to_port returned: True ends the scan with
\* True, a scan longer than scan_timeout ends it with False; after the
\* last port found a retry is counted
ToolTried(timedOut) ==
  /\ autoPc = "tried"
  /\ toolPc = "idle"
  /\ IF connectRet = "true"
       THEN /\ autoRet' = "true"
            /\ autoPc' = "idle"
            /\ UNCHANGED <<retry_count, port_index>>
       ELSE IF timedOut
         THEN /\ autoRet' = "false"
              /\ autoPc' = "idle"
              /\ UNCHANGED <<retry_count, port_index>>
         ELSE IF port_index < Len(available_ports)
           THEN /\ port_index' = port_index + 1
                /\ autoPc' = "try"
                /\ UNCHANGED <<retry_count, autoRet>>
           ELSE /\ retry_count' = retry_count + 1
                /\ autoPc' = "scan"
                /\ UNCHANGED <<port_index, autoRet>>
  /\ UNCHANGED available_ports
  /\ UNCHANGED <<toolPc, toolTarget, debug_device, tool_device, is_connected,
                 is_moving, tool_port, connectRet>>
  /\ UNCHANGED otherThanTool

(***************************************************************************)
(* FireControlSystem (mods/FireControlSystem.py)                           *)
(***************************************************************************)
\* what the detector may return for one frame
FcsBatches ==
  { <<>>,
    <<Box(0, 1, 640, 360, 90)>>,
    <<Box(0, 1, 680, 360, 90)>>,
    <<Box(0, 2, 960, 540, 80)>>,
    <<Box(0, 1, 640, 360, 90), Box(0, 2, 960, 540, 95)>>,
    <<Box(1, 3, 640, 360, 99)>>,
    <<Box(0, 0, 640, 360, 70)>> }

\* [d for d in detections if d['stability'] > threshold], in thousandths
StableTargets(dets, threshold) ==
  SelectSeq(dets, LAMBDA d : d.stability > threshold)

RECURSIVE MaxConfidence(_)
\* max(stable_targets, key=lambda x: x['confidence']): the first of the
\* detections of highest confidence
MaxConfidence(dets) ==
  IF Len(dets) = 1 THEN dets[1]
  ELSE LET rest == MaxConfidence(Tail(dets))
       IN  IF rest.confidence > Head(dets).confidence THEN rest ELSE Head(dets)

\* _calculate_chassis_angle of the centre (x1 + x2) / 2, image width 1280:
\* (center_x - 640) / 640 * 180 degrees = (x1 + x2 - 1280) * 9/64 degrees
FcsChassisAngle(bbox) ==
  Max(Deg(-180), Min(Deg(180), (bbox[1] + bbox[3] - 1280) * 2700))

\* _calculate_gun_angle of the centre (y1 + y2) / 2, image height 720:
\* (center_y - 360) / 360 * 30 degrees = (y1 + y2 - 720) / 24 degrees
FcsGunAngle(bbox) ==
  Max(Deg(-30), Min(Deg(30), (bbox[2] + bbox[4] - 720) * 800))

\* start(): not running, so run chassis.self_test().  start is followed
\* up to the first main-loop thread it creates.
StartCall ==
  /\ startPc = "idle"
  /\ cleanupPc \in {"idle", "done", "failed"}
  /\ ~fcs_running
  /\ chPc = "idle"
  /\ chassisLink' = Append(chassisLink, Tx("ROTATE 360", 0))
  /\ chPc' = "st_wait"
  /\ chResult' = "running"
  /\ startPc' = "self_test"
  /\ UNCHANGED <<gyro_calibrated, directCalibrate, linkSilent>>
  /\ UNCHANGED <<camVars, shutdownVars, senderVars, angleVars, ctorVars, moreVars, staleLoops, mainVars, trackerVars, gunVars>>
  /\ UNCHANGED <<fcs_running, fcsPc, cycles, detections, target,
                 chassis_angle, gun_angle, aimed>>

\* the first start()
FcsStart ==
  /\ fcsPc = "none"
  /\ Len(chassisLink) < LinkBound
  /\ UNCHANGED restarts
  /\ StartCall

\* start() called again after stop() returned: self.running is False, and
\* the join of stop() either found the main-loop thread ended or gave up
\* after 5 seconds with the thread in the wait of Gun.adjust, which has no
\* time limit
FcsStartAgain ==
  /\ fcsPc \in {"exit", "adjust_wait"}
  /\ restarts < MaxRestarts
  /\ restarts' = restarts + 1
  /\ Len(chassisLink) < MaxLink + MaxRestartLink * (restarts + 1)
  /\ StartCall

\* start(): self_test returned; self.running = True and the thread starts
FcsStartThread ==
  /\ startPc = "self_test"
  /\ chPc = "idle"
  /\ chResult = "ok"
  /\ startPc' = "idle"
  /\ fcs_running' = TRUE
  /\ fcsPc' = "top"
  /\ staleLoops' = IF fcsPc \in {"none", "exit"} THEN staleLoops ELSE staleLoops + 1
  /\ UNCHANGED <<camVars, shutdownVars, senderVars, angleVars, ctorVars, moreVars, restarts>>
  /\ UNCHANGED <<mainVars, chassisVars, trackerVars, gunVars>>
  /\ UNCHANGED <<cycles, detections, target, chassis_angle, gun_angle, aimed>>

\* start(): self_test raised; start logs and re-raises
FcsStartFailed ==
  /\ startPc = "self_test"
  /\ chPc = "idle"
  /\ chResult = "SerialException"
  /\ startPc' = "idle"
  /\ UNCHANGED <<camVars, shutdownVars, senderVars, extraVars, mainVars, chassisVars, trackerVars, gunVars>>
  /\ UNCHANGED <<fcs_running, fcsPc, cycles, detections, target,
                 chassis_angle, gun_angle, aimed>>

\* stop(): self.running = False; the join(timeout=5) after it returns
\* whether or not the main-loop thread has ended
FcsStop ==
  /\ fcs_running
  /\ cleanupPc \in {"idle", "done", "failed"}
  /\ fcs_running' = FALSE
  /\ UNCHANGED <<camVars, shutdownVars, senderVars, extraVars, mainVars, chassisVars, trackerVars, gunVars>>
  /\ UNCHANGED <<startPc, fcsPc, cycles, detections, target,
                 chassis_angle, gun_angle, aimed>>

\* an earlier main-loop thread finds self.running False at the top of its
\* loop and ends
StaleLoopEnds ==
  /\ staleLoops > 0
  /\ ~fcs_running
  /\ staleLoops' = staleLoops - 1
  /\ UNCHANGED <<camVars, shutdownVars, senderVars, angleVars, ctorVars, moreVars, restarts>>
  /\ UNCHANGED <<mainVars, chassisVars, trackerVars, gunVars, fcsVars>>

\* _main_loop: while self.running: frame = self.camera.get_frame(...);
\* without a frame sleep and go round again
FcsGetFrame(haveFrame) ==
  /\ fcsPc = "top"
  /\ fcsPc' = IF ~fcs_running THEN "exit"
              ELSE IF haveFrame THEN "detect" ELSE "top"
  /\ UNCHANGED <<camVars, shutdownVars, senderVars, extraVars, mainVars, chassisVars, trackerVars, gunVars>>
  /\ UNCHANGED <<fcs_running, startPc, cycles, detections, target,
                 chassis_angle, gun_angle, aimed>>

\* _main_loop: detections = self.fire_control.detect(frame)
FcsDetect(boxes) ==
  /\ fcsPc = "detect"
  /\ cycles < MaxCycles
  /\ LET r == DetectBoxes(boxes, now, track_history, next_id, <<>>)
     IN  /\ track_history' = r.th
         /\ next_id' = r.next_id
         /\ detections' = r.detections
  /\ cycles' = cycles + 1
  /\ fcsPc' = "process"
  /\ UNCHANGED <<camVars, shutdownVars, senderVars, extraVars, mainVars, chassisVars, gunVars, now>>
  /\ UNCHANGED <<fcs_running, startPc, target, chassis_angle, gun_angle, aimed>>

\* _main_loop: detect raises; the loop logs, sleeps and goes round again
FcsDetectRaises ==
  /\ fcsPc = "detect"
  /\ fcsPc' = "top"
  /\ UNCHANGED <<camVars, shutdownVars, senderVars, extraVars, mainVars, chassisVars, trackerVars, gunVars>>
  /\ UNCHANGED <<fcs_running, startPc, cycles, detections, target,
                 chassis_angle, gun_angle, aimed>>

\* _process_detections up to self.chassis.turn(chassis_angle): without a
\* stable target return; turn raises RuntimeError when the gyro is not
\* calibrated, which _process_detections logs
FcsProcess ==
  /\ fcsPc = "process"
  /\ aimed' = FALSE
  /\ IF detections = <<>> \/ StableTargets(detections, 700) = <<>>
       THEN /\ target' = <<>>
            /\ fcsPc' = "cleanup"
            /\ UNCHANGED <<chassis_angle, gun_angle, chassisLink>>
       ELSE LET t == MaxConfidence(StableTargets(detections, 700))
            IN  /\ target' = <<t>>
                /\ chassis_angle' = FcsChassisAngle(t.bbox)
                /\ gun_angle' = FcsGunAngle(t.bbox)
                /\ IF ~gyro_calibrated
                     THEN /\ fcsPc' = "cleanup"
                          /\ UNCHANGED chassisLink
                     ELSE /\ Len(chassisLink) < LinkBound
                          /\ chassisLink' = Append(chassisLink,
                               Tx("TURN", ClampChassis(FcsChassisAngle(t.bbox))))
                          /\ fcsPc' = "adjust"
  /\ UNCHANGED <<gyro_calibrated, chPc, directCalibrate, linkSilent, chResult>>
  /\ UNCHANGED <<camVars, shutdownVars, senderVars, extraVars, mainVars, trackerVars, gunVars>>
  /\ UNCHANGED <<fcs_running, startPc, cycles, detections>>

\* Gun.adjust(gun_angle) up to move_to: clamp, set target_angle, command
\* the stepper; a device error is logged and raised to _process_detections
GunAdjustMove(raises) ==
  /\ fcsPc = "adjust"
  /\ target_angle' = ClampGun(gun_angle)
  /\ IF raises
       THEN /\ fcsPc' = "cleanup"
            /\ UNCHANGED gunSteps
       ELSE /\ gunSteps' = TargetSteps(ClampGun(gun_angle))
            /\ fcsPc' = "adjust_wait"
  /\ UNCHANGED <<current_angle, fire_pin>>
  /\ UNCHANGED <<camVars, shutdownVars, senderVars, extraVars, mainVars, chassisVars, trackerVars>>
  /\ UNCHANGED <<fcs_running, startPc, cycles, detections, target,
                 chassis_angle, gun_angle, aimed>>

\* Gun.adjust: while not self.device.is_in_position: sleep; then
\* self.current_angle = angle
GunAdjustPoll(raises, in_position) ==
  /\ fcsPc = "adjust_wait"
  /\ IF raises
       THEN /\ fcsPc' = "cleanup"
            /\ UNCHANGED current_angle
       ELSE IF in_position
         THEN /\ current_angle' = ClampGun(gun_angle)
              /\ fcsPc' = "aim_check"
         ELSE UNCHANGED <<fcsPc, current_angle>>
  /\ UNCHANGED <<target_angle, gunSteps, fire_pin>>
  /\ UNCHANGED <<camVars, shutdownVars, senderVars, extraVars, mainVars, chassisVars, trackerVars>>
  /\ UNCHANGED <<fcs_running, startPc, cycles, detections, target,
                 chassis_angle, gun_angle, aimed>>

\* _process_detections: if self.gun.is_aimed() and target['stability'] > 0.9
FcsAimCheck(raises, in_position, error) ==
  /\ fcsPc = "aim_check"
  /\ aimed' = IsAimed(raises, in_position, error, current_angle, target_angle)
  /\ fcsPc' = IF IsAimed(raises, in_position, error, current_angle, target_angle)
                   /\ target[1].stability > 900
                THEN "fire" ELSE "cleanup"
  /\ UNCHANGED <<camVars, shutdownVars, senderVars, extraVars, mainVars, chassisVars, trackerVars, gunVars>>
  /\ UNCHANGED <<fcs_running, startPc, cycles, detections, target,
                 chassis_angle, gun_angle>>

\* Gun.fire: GPIO.output(self.fire_pin, GPIO.HIGH); if it raises, fire()
\* re-raises and _process_detections logs the error
GunFireAssert(raises) ==
  /\ fcsPc = "fire"
  /\ fire_pin' = IF raises THEN fire_pin ELSE 1
  /\ fcsPc' = IF raises THEN "cleanup" ELSE "firing"
  /\ UNCHANGED <<current_angle, target_angle, gunSteps>>
  /\ UNCHANGED <<camVars, shutdownVars, senderVars, extraVars, mainVars, chassisVars, trackerVars>>
  /\ UNCHANGED <<fcs_running, startPc, cycles, detections, target,
                 chassis_angle, gun_angle, aimed>>

\* Gun.fire: time.sleep(1); GPIO.output(self.fire_pin, GPIO.LOW); if it
\* raises, the pin is left as it is and _process_detections logs the error
GunFireDeassert(raises) ==
  /\ fcsPc = "firing"
  /\ fire_pin' = IF raises THEN fire_pin ELSE 0
  /\ fcsPc' = "cleanup"
  /\ UNCHANGED <<current_angle, target_angle, gunSteps>>
  /\ UNCHANGED <<camVars, shutdownVars, senderVars, extraVars, mainVars, chassisVars, trackerVars>>
  /\ UNCHANGED <<fcs_running, startPc, cycles, detections, target,
                 chassis_angle, gun_angle, aimed>>

\* _main_loop: self.fire_control.cleanup_tracks(); sleep.  The locals of
\* _process_detections are gone by now.
FcsCleanup ==
  /\ fcsPc = "cleanup"
  /\ track_history' = CleanupTracks(track_history, now)
  /\ detections' = <<>>
  /\ target' = <<>>
  /\ chassis_angle' = 0
  /\ gun_angle' = 0
  /\ aimed' = FALSE
  /\ fcsPc' = "top"
  /\ UNCHANGED <<now, next_id>>
  /\ UNCHANGED <<camVars, shutdownVars, senderVars, extraVars, mainVars, chassisVars, gunVars>>
  /\ UNCHANGED <<fcs_running, startPc, cycles>>

\* what the detector may return for one frame given to detect() directly:
\* boxes with the tracker's id 1, boxes without an id, and both
TrackerBatches ==
  { <<Box(0, 1, 640, 360, 90)>>,
    <<Box(0, 0, 960, 540, 80)>>,
    <<Box(0, 1, 640, 360, 90), Box(0, 0, 960, 540, 80)>>,
    <<Box(0, 0, 960, 540, 80), Box(0, 0, 320, 180, 70)>> }

\* FireControl.detect(frame), the whole call, at the present time
TrackerDetect(boxes) ==
  LET r == DetectBoxes(boxes, now, track_history, next_id, <<>>)
  IN  /\ r.next_id <= MaxFallbackIds
      /\ track_history' = r.th
      /\ next_id' = r.next_id
      /\ UNCHANGED now
      /\ UNCHANGED <<camVars, shutdownVars, senderVars, extraVars, mainVars,
                     chassisVars, gunVars, fcsVars>>

\* FireControl.cleanup_tracks(), the whole call, at the present time
TrackerCleanup ==
  /\ track_history' = CleanupTracks(track_history, now)
  /\ UNCHANGED <<now, next_id>>
  /\ UNCHANGED <<camVars, shutdownVars, senderVars, extraVars, mainVars,
                 chassisVars, gunVars, fcsVars>>

\* time passes: dt seconds
Tick(dt) ==
  /\ now + dt <= MaxTime
  /\ now' = now + dt
  /\ UNCHANGED <<track_history, next_id>>
  /\ UNCHANGED <<camVars, shutdownVars, senderVars, extraVars, mainVars, chassisVars, gunVars, fcsVars>>

TrackerInit ==
  /\ now = 0
  /\ track_history = <<>>
  /\ next_id = 0

GunInit ==
  /\ current_angle = 0
  /\ target_angle = 0
  /\ gunSteps = 0
  /\ fire_pin = 0

FcsInit ==
  /\ fcs_running = FALSE
  /\ startPc = "idle"
  /\ fcsPc = "none"
  /\ cycles = 0
  /\ detections = <<>>
  /\ target = <<>>
  /\ chassis_angle = 0
  /\ gun_angle = 0
  /\ aimed = FALSE

NextFCS ==
  \/ FcsStart
  \/ \E response \in Responses : SelfTestRead(response)
  \/ CalibrateFromSelfTest
  \/ \E response \in Responses : CalibrateRead(response)
  \/ ChassisSerialError
  \/ FcsStartThread
  \/ FcsStartFailed
  \/ FcsStop
  \/ \E haveFrame \in BOOLEAN : FcsGetFrame(haveFrame)
  \/ \E boxes \in FcsBatches : FcsDetect(boxes)
  \/ FcsDetectRaises
  \/ FcsProcess
  \/ \E raises \in BOOLEAN : GunAdjustMove(raises)
  \/ \E raises \in BOOLEAN, in_position \in BOOLEAN : GunAdjustPoll(raises, in_position)
  \/ \E raises \in BOOLEAN, in_position \in BOOLEAN, error \in ErrorSteps :
       FcsAimCheck(raises, in_position, error)
  \/ \E raises \in BOOLEAN : GunFireAssert(raises)
  \/ \E raises \in BOOLEAN : GunFireDeassert(raises)
  \/ FcsCleanup
  \/ \E dt \in TimeSteps : Tick(dt)

(***************************************************************************)
(* main.py: AngleCalculator, YOLODetector, MainController                  *)
(***************************************************************************)
\* what a detection task may put into the detection queue; the first is
\* the result of _mock_detection (image 1920 x 1080)
MainBatches ==
  { <<[cls |-> 0, id |-> 1, bbox |-> <<910, 490, 1010, 590>>, conf |-> 95]>>,
    <<Box(0, 2, 1440, 540, 90)>>,
    <<Box(1, 3, 960, 540, 90)>>,
    <<Box(0, 2, 1060, 540, 90), Box(0, 1, 860, 540, 90)>>,
    <<>> }

TargetIds == {1, 2, 3}

\* AngleCalculator.pixel_to_angle of calculate_target_center(bbox):
\* x_angle = (cx - 960) / 960 * 42.5 and y_angle = (540 - cy) / 540 *
\* (85 * 9/16 / 2), both 17/768 degree per unit of the pixel sums
PixelToAngle(bbox) ==
  <<(bbox[1] + bbox[3] - 1920) * 425, (1080 - (bbox[2] + bbox[4])) * 425>>

\* four times the squared distance of the centre of bbox to the image centre
Distance2(bbox) ==
  (bbox[1] + bbox[3] - 1920) * (bbox[1] + bbox[3] - 1920)
    + (bbox[2] + bbox[4] - 1080) * (bbox[2] + bbox[4] - 1080)

RECURSIVE Nearest(_, _)
\* process_detection: the loop keeping the class-0 detection of strictly
\* smallest distance seen so far (best: <<>> or <<detection>>)
Nearest(dets, best) ==
  IF dets = <<>> THEN best
  ELSE LET d == Head(dets)
       IN  IF d.cls = 0 /\ (best = <<>> \/ Distance2(d.bbox) < Distance2(best[1].bbox))
             THEN Nearest(Tail(dets), <<d>>)
             ELSE Nearest(Tail(dets), best)

RECURSIVE Flatten(_)
\* get_average_detection: all detections of the queued batches, in order
Flatten(q) == IF q = <<>> THEN <<>> ELSE Head(q) \o Flatten(Tail(q))

\* f"{angle:.2f}": the angle rounded to a multiple of 1/100 degree (192
\* units), half-way cases to the even multiple
Round2(angle) ==
  LET q == angle \div 192
      r == angle % 192
  IN  IF r < 96 THEN q * 192
      ELSE IF r > 96 THEN (q + 1) * 192
      ELSE IF q % 2 = 0 THEN q * 192 ELSE (q + 1) * 192

\* is_target_locked
IsTargetLocked(x_angle, y_angle) ==
  Abs(x_angle) < Deg(AIM_THRESHOLD) /\ Abs(y_angle) < Deg(AIM_THRESHOLD)

\* mods/MainController._aim_at_target: abs(chassis_angle) < 10
ChassisAimed(angle) == Abs(angle) < Deg(CHASSIS_AIM_LIMIT)

\* SerialController.send_command on serial_a: the line is written, or the
\* write raises and the error is logged
SendCommand(link, cmd, arg, writeFails) ==
  IF writeFails THEN link ELSE Append(link, Tx(cmd, arg))

\* run(): frame = self.camera.get_frame(); without a frame: sleep, continue;
\* with one: detect_async starts a detection thread
RunGetFrame(haveFrame, maxCycles) ==
  /\ mainPc = "top"
  /\ IF haveFrame
       THEN /\ cycles < maxCycles
            /\ cycles' = cycles + 1
            /\ pendingTasks' = pendingTasks + 1
            /\ mainPc' = "average"
       ELSE UNCHANGED <<cycles, pendingTasks, mainPc>>
  /\ UNCHANGED <<main_current_angle, target_locked, search_mode,
                 detection_queue, angles, best_target, sightings,
                 pulses, lastCycle, controlGun>>
  /\ UNCHANGED <<fcs_running, startPc, fcsPc, detections, target,
                 chassis_angle, gun_angle, aimed>>
  /\ UNCHANGED <<camVars, shutdownVars, senderVars, extraVars, chassisVars, trackerVars, gunVars>>

\* run(): get_average_detection reads the queue, and either a target is
\* found by process_detection (control_chassis, then control_gun up to
\* move_to) or search_target runs
RunProcess(writeFails, raises, maxLink) ==
  /\ mainPc = "average"
  /\ Len(chassisLink) < maxLink
  /\ LET best == Nearest(Flatten(detection_queue), <<>>)
     IN  IF best = <<>>
           THEN /\ search_mode' = TRUE
                /\ main_current_angle' = main_current_angle + Deg(SEARCH_ANGLE)
                /\ chassisLink' = SendCommand(chassisLink, "TURN",
                     Round2(main_current_angle + Deg(SEARCH_ANGLE)), writeFails)
                /\ mainPc' = "top"
                /\ pulses' = 0
                /\ lastCycle' = "search"
                /\ UNCHANGED <<target_locked, angles, best_target, gunSteps,
                               controlGun>>
           ELSE /\ angles' = PixelToAngle(best[1].bbox)
                /\ best_target' = best[1].id
                /\ chassisLink' = SendCommand(chassisLink, "TURN",
                     Round2(PixelToAngle(best[1].bbox)[1]), writeFails)
                /\ IF raises
                     THEN /\ mainPc' = "lock_check"
                          /\ controlGun' = "error"
                          /\ UNCHANGED gunSteps
                     ELSE /\ gunSteps' = TargetSteps(PixelToAngle(best[1].bbox)[2])
                          /\ controlGun' = "moved"
                          /\ mainPc' = "gun_wait"
                /\ UNCHANGED <<main_current_angle, target_locked, search_mode,
                               pulses, lastCycle>>
  /\ UNCHANGED <<detection_queue, pendingTasks, sightings>>
  /\ UNCHANGED <<gyro_calibrated, chPc, directCalibrate, linkSilent, chResult>>
  /\ UNCHANGED <<current_angle, target_angle, fire_pin>>
  /\ UNCHANGED <<camVars, shutdownVars, senderVars, extraVars, trackerVars, fcsVars>>

\* the two steps of run() within the bounds of the model
MainGetFrame(haveFrame) == RunGetFrame(haveFrame, MaxRunCycles)

MainProcess(writeFails, raises) == RunProcess(writeFails, raises, MaxLink)

\* deque(maxlen=DETECTION_AVERAGE_COUNT).append: the oldest batch leaves a
\* full queue
DequeAppend(queue, batch) ==
  IF Len(queue) >= DETECTION_AVERAGE_COUNT
    THEN Append(Tail(queue), batch)
    ELSE Append(queue, batch)

\* detect_async's thread: the detector's result is appended to the queue
\* (a deque of maxlen DETECTION_AVERAGE_COUNT); a detector error is logged
MainDetectionTask(batch, raises) ==
  /\ pendingTasks > 0
  /\ pendingTasks' = pendingTasks - 1
  /\ IF raises
       THEN UNCHANGED <<detection_queue, sightings>>
       ELSE /\ detection_queue' = DequeAppend(detection_queue, batch)
            /\ sightings' = [i \in TargetIds |->
                 IF \E k \in 1..Len(batch) : batch[k].id = i
                   THEN sightings[i] + 1 ELSE sightings[i]]
  /\ UNCHANGED <<mainPc, main_current_angle, target_locked, search_mode,
                 angles, best_target, pulses, lastCycle, controlGun>>
  /\ UNCHANGED <<camVars, shutdownVars, senderVars, extraVars, chassisVars, trackerVars, gunVars, fcsVars>>

\* control_gun: while not self.gun_device.is_in_position: sleep; a device
\* error is logged by control_gun
MainGunPoll(raises, in_position) ==
  /\ mainPc = "gun_wait"
  /\ mainPc' = IF raises \/ in_position THEN "lock_check" ELSE "gun_wait"
  /\ controlGun' = IF raises THEN "error"
                   ELSE IF in_position THEN "in_position" ELSE controlGun
  /\ UNCHANGED <<main_current_angle, target_locked, search_mode,
                 detection_queue, pendingTasks, angles, best_target, sightings,
                 pulses, lastCycle>>
  /\ UNCHANGED <<camVars, shutdownVars, senderVars, extraVars, chassisVars, trackerVars, gunVars, fcsVars>>

\* run(): if self.is_target_locked(x_angle, y_angle): ... else: ...
MainLockCheck ==
  /\ mainPc = "lock_check"
  /\ IF IsTargetLocked(angles[1], angles[2])
       THEN /\ target_locked' = TRUE
            /\ mainPc' = "fire"
            /\ lastCycle' = "locked"
            /\ UNCHANGED pulses
       ELSE /\ target_locked' = FALSE
            /\ mainPc' = "top"
            /\ lastCycle' = "unlocked"
            /\ pulses' = 0
  /\ UNCHANGED <<main_current_angle, search_mode, detection_queue,
                 pendingTasks, angles, best_target, sightings, controlGun>>
  /\ UNCHANGED <<camVars, shutdownVars, senderVars, extraVars, chassisVars, trackerVars, gunVars, fcsVars>>

\* GPIOController.fire: GPIO.output(self.fire_pin, GPIO.HIGH); if it
\* raises, fire() logs the error and run() goes on: search_mode = False
MainFireAssert(raises) ==
  /\ mainPc = "fire"
  /\ IF raises
       THEN /\ search_mode' = FALSE
            /\ mainPc' = "top"
            /\ UNCHANGED fire_pin
       ELSE /\ fire_pin' = 1
            /\ mainPc' = "firing"
            /\ UNCHANGED search_mode
  /\ pulses' = IF raises THEN pulses ELSE pulses + 1
  /\ UNCHANGED <<current_angle, target_angle, gunSteps>>
  /\ UNCHANGED <<main_current_angle, target_locked, detection_queue,
                 pendingTasks, angles, best_target, sightings,
                 lastCycle, controlGun>>
  /\ UNCHANGED <<camVars, shutdownVars, senderVars, extraVars, chassisVars, trackerVars, fcsVars>>

\* GPIOController.fire: sleep, GPIO.output(self.fire_pin, GPIO.LOW) (if it
\* raises, the error is logged and the pin is left as it is); then run():
\* self.search_mode = False
MainFireDeassert(raises) ==
  /\ mainPc = "firing"
  /\ fire_pin' = IF raises THEN fire_pin ELSE 0
  /\ search_mode' = FALSE
  /\ mainPc' = "top"
  /\ UNCHANGED <<current_angle, target_angle, gunSteps>>
  /\ UNCHANGED <<main_current_angle, target_locked, detection_queue,
                 pendingTasks, angles, best_target, sightings,
                 pulses, lastCycle, controlGun>>
  /\ UNCHANGED <<camVars, shutdownVars, senderVars, extraVars, chassisVars, trackerVars, fcsVars>>

\* run() in front of a scene without a target: the detector returns an
\* empty list for every frame, or fails
SearchGetFrame(haveFrame) == RunGetFrame(haveFrame, MaxSearchCycles)

SearchProcess(writeFails) == RunProcess(writeFails, FALSE, MaxSearchLink)

SearchDetectionTask(raises) == MainDetectionTask(<<>>, raises)

MainInit ==
  /\ mainPc = "top"
  /\ main_current_angle = 0
  /\ target_locked = FALSE
  /\ search_mode = TRUE
  /\ detection_queue = <<>>
  /\ pendingTasks = 0
  /\ angles = <<>>
  /\ best_target = 0
  /\ sightings = [i \in TargetIds |-> 0]
  /\ pulses = 0
  /\ lastCycle = "none"
  /\ controlGun = "none"

NextMain ==
  \/ \E haveFrame \in BOOLEAN : MainGetFrame(haveFrame)
  \/ \E writeFails \in BOOLEAN, raises \in BOOLEAN : MainProcess(writeFails, raises)
  \/ \E batch \in MainBatches, raises \in BOOLEAN : MainDetectionTask(batch, raises)
  \/ \E raises \in BOOLEAN, in_position \in BOOLEAN : MainGunPoll(raises, in_position)
  \/ MainLockCheck
  \/ \E raises \in BOOLEAN : MainFireAssert(raises)
  \/ \E raises \in BOOLEAN : MainFireDeassert(raises)

NextSearch ==
  \/ \E haveFrame \in BOOLEAN : SearchGetFrame(haveFrame)
  \/ \E writeFails \in BOOLEAN : SearchProcess(writeFails)
  \/ \E raises \in BOOLEAN : SearchDetectionTask(raises)

(***************************************************************************)
(* mods/TCP.py: VideoStreamSender.  One thread uses the sender, so each     *)
(* call is one step.                                                       *)
(***************************************************************************)

\* how the try block of send_frame can end: everything written, the
\* connection lost after a part was written, or an exception before
\* anything was written (in sendall, or in struct.pack, which takes
\* sequences below 2^32 only)
SendOutcomes == {"all", "part", "none"}

\* how connect() can end: connected, the connection refused on the new
\* socket, or no socket could be created
ConnectOutcomes == {"ok", "refused", "nosocket"}

\* a send_frame that counts the frame once any of its bytes were written
SequenceAfterAnyWrite(outcome) ==
  IF outcome \in {"all", "part"} THEN sequence + 1 ELSE sequence

\* send_frame: self.sequence += 1 is reached only after sendall returned
SequenceAfter(outcome) ==
  IF outcome = "all" THEN sequence + 1 ELSE sequence

\* a send_frame whose except branch leaves self.connected as it is
ConnectedAfterKept(outcome) == TRUE

\* send_frame: the except branch sets self.connected = False
ConnectedAfter(outcome) == outcome = "all"

\* VideoStreamSender.connect(): a new socket replaces self.socket, then
\* connects.
SenderConnect(result) ==
  /\ sock < MaxSockets
  /\ sock' = IF result = "nosocket" THEN sock ELSE sock + 1
  /\ connected' = (result = "ok")
  /\ UNCHANGED <<sequence, wire, sendRet>>
  /\ UNCHANGED <<camVars, shutdownVars, extraVars, chassisVars, trackerVars, gunVars,
                 fcsVars, mainVars>>

\* VideoStreamSender.send_frame(frame_data).  nonempty: frame_data is not
\* empty; result: how the connect() it may call ends; outcome: how sendall
\* ends.
SendFrame(nonempty, result, outcome) ==
  /\ Len(wire) < MaxWire
  /\ connected \/ sock < MaxSockets
  /\ IF ~nonempty
       THEN /\ sendRet' = "ValueError"
            /\ UNCHANGED <<sequence, connected, sock, wire>>
       ELSE IF ~connected /\ result # "ok"
         THEN /\ sock' = IF result = "nosocket" THEN sock ELSE sock + 1
              /\ connected' = FALSE
              /\ sendRet' = "False"
              /\ UNCHANGED <<sequence, wire>>
         ELSE LET s == IF connected THEN sock ELSE sock + 1
              IN  /\ sock' = s
                  /\ wire' = Append(wire, [sock |-> s, seq |-> sequence,
                                           sent |-> outcome])
                  /\ sequence' = SequenceAfter(outcome)
                  /\ connected' = ConnectedAfter(outcome)
                  /\ sendRet' = IF outcome = "all" THEN "True" ELSE "False"
  /\ UNCHANGED <<camVars, shutdownVars, extraVars, chassisVars, trackerVars, gunVars,
                 fcsVars, mainVars>>

\* VideoStreamSender.close(): with a socket, close it and clear connected;
\* an exception of socket.close() is logged
SenderClose(raises) ==
  /\ connected' = IF sock # 0 /\ ~raises THEN FALSE ELSE connected
  /\ UNCHANGED <<sequence, sock, wire, sendRet>>
  /\ UNCHANGED <<camVars, shutdownVars, extraVars, chassisVars, trackerVars, gunVars,
                 fcsVars, mainVars>>

SenderInit ==
  /\ sequence = 0
  /\ connected = FALSE
  /\ sock = 0
  /\ wire = <<>>
  /\ sendRet = "none"

NextSender ==
  \/ \E result \in ConnectOutcomes : SenderConnect(result)
  \/ \E nonempty \in BOOLEAN, result \in ConnectOutcomes, outcome \in SendOutcomes :
       SendFrame(nonempty, result, outcome)
  \/ \E raises \in BOOLEAN : SenderClose(raises)

(***************************************************************************)
(* mods/FireControlSystem.py: FireControlSystem.cleanup, with the devices  *)
(* __init__ opened through mods/DeviceManager.py.  cleanup runs on the     *)
(* caller's thread while the main-loop thread may still be running; the    *)
(* caller is the thread that calls start and stop, one call at a time.     *)
(***************************************************************************)

\* _register_devices: the two serial links and the camera, each opened and
\* stored under its name.  The camera index in the configuration is 0.
RegisteredDevices ==
  [chassis |-> [channel |-> "serial_chassis", open |-> TRUE],
   gun     |-> [channel |-> "serial_gun",     open |-> TRUE],
   camera  |-> [channel |-> "camera0",        open |-> TRUE]]

\* _initialize_modules: self.camera = Camera(0) opens cv2.VideoCapture(0)
CameraChannel == "camera0"

\* the open handles on a channel: those of the registry and Camera.cap
OpenHandles(channel) ==
  Cardinality({name \in DOMAIN devices :
                 devices[name].channel = channel /\ devices[name].open})
  + (IF channel = CameraChannel /\ capState = "open" THEN 1 ELSE 0)

\* the main-loop thread is not running: never started, or left _main_loop
LoopThreadEnded == fcsPc \in {"none", "exit"}

\* cleanup: self.stop().  stop() returns at once when running is False,
\* else it clears running and joins the thread if there is one.
ShutdownStop ==
  /\ cleanupPc = "idle"
  /\ startPc = "idle"
  /\ fcs_running' = FALSE
  /\ cleanupPc' = IF fcs_running /\ fcsPc # "none" THEN "join" ELSE "gun"
  /\ UNCHANGED <<shutdownLog, devices>>
  /\ UNCHANGED <<camVars, senderVars, extraVars, mainVars, chassisVars, trackerVars, gunVars>>
  /\ UNCHANGED <<startPc, fcsPc, cycles, detections, target,
                 chassis_angle, gun_angle, aimed>>

\* stop(): self.thread.join(timeout=5) returns when the thread has ended
\* or when the five seconds are over
ShutdownJoin(timedOut) ==
  /\ cleanupPc = "join"
  /\ IF timedOut THEN ~LoopThreadEnded ELSE LoopThreadEnded
  /\ shutdownLog' = Append(shutdownLog,
                           IF timedOut THEN "loop_join_timeout" ELSE "loop_joined")
  /\ cleanupPc' = "gun"
  /\ UNCHANGED devices
  /\ UNCHANGED <<camVars, senderVars, extraVars, mainVars, chassisVars, trackerVars,
                 gunVars, fcsVars>>

\* cleanup: self.gun.cleanup(): device.stop(), device.disable(),
\* GPIO.cleanup(); Gun.cleanup logs an exception and raises it again, and
\* cleanup does not catch it
ShutdownGun(raises) ==
  /\ cleanupPc = "gun"
  /\ IF raises
       THEN /\ cleanupPc' = "failed"
            /\ UNCHANGED <<shutdownLog, fire_pin>>
       ELSE /\ cleanupPc' = "camera"
            /\ shutdownLog' = Append(shutdownLog, "gun_stop")
            /\ fire_pin' = 0
  /\ UNCHANGED <<devices, current_angle, target_angle, gunSteps>>
  /\ UNCHANGED <<camVars, senderVars, extraVars, mainVars, chassisVars, trackerVars, fcsVars>>

\* cleanup: self.camera.release(), at its return: running cleared, the
\* capture thread joined, the device released (ReleaseStop, ReleaseJoin and
\* ReleaseDevice are its steps).  An exception in release is raised again.
ShutdownCamera(raises) ==
  /\ cleanupPc = "camera"
  /\ running' = FALSE
  /\ IF raises
       THEN /\ cleanupPc' = "failed"
            /\ UNCHANGED <<shutdownLog, capPc, capState, relPc>>
       ELSE /\ cleanupPc' = "sender"
            /\ shutdownLog' = shutdownLog \o <<"camera_join", "camera_release">>
            /\ capPc' = "exit"
            /\ capState' = "released"
            /\ relPc' = "done"
  /\ UNCHANGED <<frame_queue, capFrame, acquired, discarded, conPc, conRet,
                 acqAtGet, devices>>
  /\ UNCHANGED <<senderVars, extraVars, mainVars, chassisVars, trackerVars, gunVars, fcsVars>>

\* cleanup: if hasattr(self, 'video_sender'): self.video_sender.close().
\* The attribute always exists; it is None when the configuration has no
\* "tcp" entry, and None has no close().
ShutdownSender(configured) ==
  /\ cleanupPc = "sender"
  /\ IF configured
       THEN /\ cleanupPc' = "devices"
            /\ shutdownLog' = Append(shutdownLog, "sender_close")
            /\ connected' = FALSE
       ELSE /\ cleanupPc' = "failed"
            /\ UNCHANGED <<shutdownLog, connected>>
  /\ UNCHANGED <<devices, sequence, sock, wire, sendRet>>
  /\ UNCHANGED <<camVars, extraVars, mainVars, chassisVars, trackerVars, gunVars,
                 fcsVars>>

\* cleanup: self.device_manager.close_all()
ShutdownDevices ==
  /\ cleanupPc = "devices"
  /\ cleanupPc' = "done"
  /\ devices' = [name \in DOMAIN devices |->
                   [devices[name] EXCEPT !.open = FALSE]]
  /\ shutdownLog' = Append(shutdownLog, "devices_close")
  /\ UNCHANGED <<camVars, senderVars, extraVars, mainVars, chassisVars, trackerVars,
                 gunVars, fcsVars>>

ShutdownInit ==
  /\ cleanupPc = "idle"
  /\ shutdownLog = <<>>
  /\ devices = RegisteredDevices

\* the system with its main loop, and cleanup called at any moment
NextShutdown ==
  \/ FcsStart
  \/ \E response \in Responses : SelfTestRead(response)
  \/ CalibrateFromSelfTest
  \/ \E response \in Responses : CalibrateRead(response)
  \/ ChassisSerialError
  \/ FcsStartThread
  \/ FcsStartFailed
  \/ FcsStop
  \/ \E haveFrame \in BOOLEAN : FcsGetFrame(haveFrame)
  \/ \E boxes \in FcsBatches : FcsDetect(boxes)
  \/ FcsDetectRaises
  \/ FcsProcess
  \/ \E raises \in BOOLEAN : GunAdjustMove(raises)
  \/ \E raises \in BOOLEAN, in_position \in BOOLEAN : GunAdjustPoll(raises, in_position)
  \/ \E raises \in BOOLEAN, in_position \in BOOLEAN, error \in ErrorSteps :
       FcsAimCheck(raises, in_position, error)
  \/ \E raises \in BOOLEAN : GunFireAssert(raises)
  \/ \E raises \in BOOLEAN : GunFireDeassert(raises)
  \/ FcsCleanup
  \/ ShutdownStop
  \/ \E timedOut \in BOOLEAN : ShutdownJoin(timedOut)
  \/ \E raises \in BOOLEAN : ShutdownGun(raises)
  \/ \E raises \in BOOLEAN : ShutdownCamera(raises)
  \/ \E configured \in BOOLEAN : ShutdownSender(configured)
  \/ ShutdownDevices

(***************************************************************************)
(* The pixel-to-angle conversions: AngleCalculator.pixel_to_angle of       *)
(* main.py, _calculate_chassis_angle / _calculate_gun_angle of             *)
(* mods/FireControlSystem.py and of mods/MainController.py, each applied   *)
(* to the centre of the target's bbox.                                     *)
(***************************************************************************)

\* mods/MainController._calculate_chassis_angle of the centre (x1 + x2) / 2:
\* max(-180, min(180, (x - 0.5) * 360)), in whole pixels
McChassisAngle(bbox) ==
  LET twice == bbox[1] + bbox[3]
  IN  IF twice >= 2 THEN Deg(180)
      ELSE IF twice <= 0 THEN Deg(-180)
      ELSE (twice - 1) * Deg(180)

\* mods/MainController._calculate_gun_angle of the centre (y1 + y2) / 2:
\* max(-30, min(30, (y - 0.5) * 60)), in whole pixels
McGunAngle(bbox) ==
  LET twice == bbox[2] + bbox[4]
  IN  IF twice >= 2 THEN Deg(30)
      ELSE IF twice <= 0 THEN Deg(-30)
      ELSE (twice - 1) * Deg(30)

\* the target centres converted
PixelXs == {0, 1, 320, 640, 641, 960, 1279, 1280, 1600, 1919, 1920}
PixelYs == {0, 1, 180, 360, 361, 540, 719, 720, 900, 1080}

\* a bbox with its centre at (cx, cy)
CentredAt(cx, cy) == <<cx, cy, cx, cy>>

\* each control loop converts the centre of the chosen target's bbox
Convert(cx, cy) ==
  /\ pixel' = <<cx, cy>>
  /\ converted' =
       [main |-> PixelToAngle(CentredAt(cx, cy)),
        fcs  |-> <<FcsChassisAngle(CentredAt(cx, cy)), FcsGunAngle(CentredAt(cx, cy))>>,
        mc   |-> <<McChassisAngle(CentredAt(cx, cy)), McGunAngle(CentredAt(cx, cy))>>]
  /\ UNCHANGED <<camVars, shutdownVars, senderVars, ctorVars, loopVars, moreVars,
                 chassisVars, trackerVars, gunVars, fcsVars, mainVars>>

AngleInit ==
  /\ pixel = <<>>
  /\ converted = <<>>

NextAngles == \E cx \in PixelXs, cy \in PixelYs : Convert(cx, cy)

(***************************************************************************)
(* mods/Cap.py: Camera.__init__ from self.thread.start() on, and the first *)
(* steps of the capture thread it has started.  The thread reads           *)
(* self.logger when a read fails and self.frame_count when it succeeds.    *)
(***************************************************************************)

\* the assignments of __init__ after self.thread.start(), in order
CtorOrder == <<"frame_count", "start_time", "logger">>

\* what a thread finds that reads field: an attribute that is not yet
\* assigned raises AttributeError, which ends the thread
ReadField(field) == field \in assigned

\* __init__ up to self.thread.start(): the queue and running are assigned,
\* the thread runs
CtorStart ==
  /\ ctorPc = 0
  /\ newPc = "none"
  /\ ctorPc' = 1
  /\ assigned' = {}
  /\ newPc' = "grab"
  /\ UNCHANGED <<newCount, newFault>>
  /\ UNCHANGED <<camVars, shutdownVars, senderVars, angleVars, loopVars, moreVars,
                 chassisVars, trackerVars, gunVars, fcsVars, mainVars>>

\* __init__: the next assignment after self.thread.start()
CtorAssign ==
  /\ ctorPc \in 1..Len(CtorOrder)
  /\ assigned' = assigned \cup {CtorOrder[ctorPc]}
  /\ ctorPc' = ctorPc + 1
  /\ UNCHANGED <<newPc, newCount, newFault>>
  /\ UNCHANGED <<camVars, shutdownVars, senderVars, angleVars, loopVars, moreVars,
                 chassisVars, trackerVars, gunVars, fcsVars, mainVars>>

\* _capture_thread: the two grab() calls and cap.read()
NewThreadRead(ret) ==
  /\ newPc = "grab"
  /\ newCount < MaxNewFrames
  /\ newPc' = IF ret THEN "count" ELSE "warn"
  /\ UNCHANGED <<ctorPc, assigned, newCount, newFault>>
  /\ UNCHANGED <<camVars, shutdownVars, senderVars, angleVars, loopVars, moreVars,
                 chassisVars, trackerVars, gunVars, fcsVars, mainVars>>

\* _capture_thread: self.logger.warning(...) after a failed read
NewThreadWarn ==
  /\ newPc = "warn"
  /\ IF ReadField("logger")
       THEN newPc' = "grab" /\ UNCHANGED newFault
       ELSE newPc' = "dead" /\ newFault' = "logger"
  /\ UNCHANGED <<ctorPc, assigned, newCount>>
  /\ UNCHANGED <<camVars, shutdownVars, senderVars, angleVars, loopVars, moreVars,
                 chassisVars, trackerVars, gunVars, fcsVars, mainVars>>

\* _capture_thread: self.frame_count += 1, the frame-rate report every
\* FPS_CALC_INTERVAL frames (start_time and logger are read), then the push
NewThreadCount ==
  /\ newPc = "count"
  /\ IF ~ReadField("frame_count")
       THEN /\ newPc' = "dead" /\ newFault' = "frame_count"
            /\ UNCHANGED newCount
       ELSE IF (newCount + 1) % FPS_CALC_INTERVAL # 0
         THEN /\ newCount' = newCount + 1
              /\ newPc' = "grab"
              /\ UNCHANGED newFault
       ELSE IF ~ReadField("start_time")
         THEN /\ newPc' = "dead" /\ newFault' = "start_time"
              /\ newCount' = newCount + 1
       ELSE IF ~ReadField("logger")
         THEN /\ newPc' = "dead" /\ newFault' = "logger"
              /\ newCount' = newCount + 1
       ELSE /\ newCount' = 0
            /\ newPc' = "grab"
            /\ UNCHANGED newFault
  /\ UNCHANGED <<ctorPc, assigned>>
  /\ UNCHANGED <<camVars, shutdownVars, senderVars, angleVars, loopVars, moreVars,
                 chassisVars, trackerVars, gunVars, fcsVars, mainVars>>

\* StepperDebugTool.__init__ with the default port
ToolInit ==
  /\ toolPc = "idle"
  /\ toolTarget = [port |-> "ttyUSB0", kind |-> "absent"]
  /\ debug_device = <<>>
  /\ tool_device = FALSE
  /\ is_connected = FALSE
  /\ is_moving = FALSE
  /\ tool_port = "ttyUSB0"
  /\ connectRet = "none"
  /\ autoPc = "idle"
  /\ retry_count = 0
  /\ available_ports = <<>>
  /\ port_index = 0
  /\ autoRet = "none"

GunCallInit ==
  /\ lastAdjust = "none"
  /\ aimedRet = "none"

LoopInit ==
  /\ restarts = 0
  /\ staleLoops = 0

CtorInit ==
  /\ ctorPc = 0
  /\ assigned = {}
  /\ newPc = "none"
  /\ newCount = 0
  /\ newFault = "none"

CamInit ==
  /\ frame_queue = <<>>
  /\ running = TRUE
  /\ capPc = "loop"
  /\ capFrame = 0
  /\ acquired = 0
  /\ discarded = 0
  /\ capState = "open"
  /\ relPc = "idle"
  /\ conPc = [c \in Callers |-> "idle"]
  /\ conRet = [c \in Callers |-> 0]
  /\ acqAtGet = [c \in Callers |-> 0]

Init ==
  /\ CamInit /\ ChassisInit /\ TrackerInit /\ GunInit /\ FcsInit /\ MainInit
  /\ ShutdownInit /\ SenderInit /\ AngleInit /\ CtorInit /\ LoopInit
  /\ GunCallInit /\ ToolInit

NextCam ==
  \/ CapLoop
  \/ CapGrab
  \/ CapReadOk
  \/ CapReadFail
  \/ CapFull
  \/ CapDiscard
  \/ CapPut
  \/ \E c \in Callers, quality \in {"HIGH", "LOW", "BAD"} : GetFrameCheck(c, quality)
  \/ \E c \in Callers : GetFrameGet(c)
  \/ ReleaseStop
  \/ ReleaseJoin
  \/ ReleaseDevice

SpecCam == Init /\ [][NextCam]_vars

\* a Camera under construction and the thread it has started
NextCtor ==
  \/ CtorStart
  \/ CtorAssign
  \/ \E ret \in BOOLEAN : NewThreadRead(ret)
  \/ NewThreadWarn
  \/ NewThreadCount

SpecCtor == Init /\ [][NextCtor]_vars

\* Camera with every get_frame call made before release is called
NextRelease ==
  \/ CapLoop
  \/ CapGrab
  \/ CapReadOk
  \/ CapReadFail
  \/ CapFull
  \/ CapDiscard
  \/ CapPut
  \/ /\ relPc = "idle"
     /\ \E c \in Callers, quality \in {"HIGH", "LOW", "BAD"} : GetFrameCheck(c, quality)
  \/ \E c \in Callers : GetFrameGet(c)
  \/ ReleaseStop
  \/ ReleaseJoin
  \/ ReleaseDevice

\* its threads scheduled: the capture thread takes every step it can take
\* (device reads return), and so does the caller of release
SpecRelease ==
  /\ Init
  /\ [][NextRelease]_vars
  /\ WF_vars(CapLoop)
  /\ WF_vars(CapGrab)
  /\ WF_vars(CapReadOk \/ CapReadFail)
  /\ WF_vars(CapFull)
  /\ WF_vars(CapDiscard)
  /\ WF_vars(CapPut)
  /\ WF_vars(ReleaseJoin)
  /\ WF_vars(ReleaseDevice)

SpecChassis == Init /\ [][NextChassis]_vars

\* The Chassis operations in front of a device that may fall silent.  The
\* thread inside self_test / calibrate_gyro keeps running: it takes every
\* line the device sends and goes on to calibrate_gyro after the self test.
NextWaits ==
  \/ NextChassis
  \/ ChassisReadTimeout
  \/ ChassisGoesSilent

SpecWaits ==
  /\ Init
  /\ [][NextWaits]_vars
  /\ WF_vars(\E response \in Responses : SelfTestRead(response))
  /\ WF_vars(CalibrateFromSelfTest)
  /\ WF_vars(\E response \in Responses : CalibrateRead(response))

SpecFCS == Init /\ [][NextFCS]_vars

SpecMain == Init /\ [][NextMain]_vars

SpecSearch == Init /\ [][NextSearch]_vars

SpecShutdown == Init /\ [][NextShutdown]_vars

\* the system with start() and stop() called any number of times
NextRestart ==
  \/ FcsStart
  \/ FcsStartAgain
  \/ \E response \in Responses : SelfTestRead(response)
  \/ CalibrateFromSelfTest
  \/ \E response \in Responses : CalibrateRead(response)
  \/ ChassisSerialError
  \/ FcsStartThread
  \/ FcsStartFailed
  \/ FcsStop
  \/ StaleLoopEnds
  \/ \E haveFrame \in BOOLEAN : FcsGetFrame(haveFrame)
  \/ \E boxes \in FcsBatches : FcsDetect(boxes)
  \/ FcsDetectRaises
  \/ FcsProcess
  \/ \E raises \in BOOLEAN : GunAdjustMove(raises)
  \/ \E raises \in BOOLEAN, in_position \in BOOLEAN : GunAdjustPoll(raises, in_position)
  \/ \E raises \in BOOLEAN, in_position \in BOOLEAN, error \in ErrorSteps :
       FcsAimCheck(raises, in_position, error)
  \/ \E raises \in BOOLEAN : GunFireAssert(raises)
  \/ \E raises \in BOOLEAN : GunFireDeassert(raises)
  \/ FcsCleanup

SpecRestart == Init /\ [][NextRestart]_vars

\* a Gun whose adjust and is_aimed are called in any order
NextGun ==
  \/ \E angle \in AdjustAngles, outcome \in AdjustOutcomes : GunAdjust(angle, outcome)
  \/ \E raises \in BOOLEAN, in_position \in BOOLEAN, error \in ErrorSteps :
       GunIsAimed(raises, in_position, error)

SpecGun == Init /\ [][NextGun]_vars

\* a FireControl whose detect and cleanup_tracks are called in any order
\* while time passes
NextTracker ==
  \/ \E boxes \in TrackerBatches : TrackerDetect(boxes)
  \/ TrackerCleanup
  \/ \E dt \in TimeSteps : Tick(dt)

SpecTracker == Init /\ [][NextTracker]_vars

\* a StepperDebugTool that is connected, by port or by scanning, and
\* disconnected any number of times
NextTool ==
  \/ \E port \in Ports, kind \in DeviceKinds : ToolConnectToPort(port, kind)
  \/ ToolRegister
  \/ ToolMakeDevice
  \/ \E in_position \in BOOLEAN : ToolValidate(in_position)
  \/ ToolDisconnectReturn
  \/ ToolDisconnect
  \/ ToolAutoconnect
  \/ \E ports \in ScanResults : ToolScan(ports)
  \/ \E kind \in DeviceKinds : ToolTryPort(kind)
  \/ \E timedOut \in BOOLEAN : ToolTried(timedOut)

SpecTool == Init /\ [][NextTool]_vars

SpecSender == Init /\ [][NextSender]_vars

SpecAngles == Init /\ [][NextAngles]_vars

(***************************************************************************)
(* Claims about Camera (mods/Cap.py), checked under SpecCam.               *)
(***************************************************************************)

\* C1: the frame queue never holds more than QUEUE_SIZE (2) frames, and the
\* frame the capture thread discards while pushing is the oldest queued
\* frame: every frame left in the queue is newer than the discarded one.
C1_BoundedDropOldest ==
  /\ Len(frame_queue) <= QUEUE_SIZE
  /\ discarded # 0 =>
       \A i \in 1..Len(frame_queue) : frame_queue[i] > discarded

\* C1 witness: the capture thread found the queue full, has discarded a
\* frame and a newer frame is still queued.
C1_Witness ==
  /\ capPc = "put"
  /\ discarded # 0
  /\ Len(frame_queue) = 1
  /\ frame_queue[1] = discarded + 1

\* C2: the capture thread never waits on the queue during its push: it is
\* never at its discarding get() with the queue empty, nor at put() with
\* the queue full.
C2_ProducerNeverWaits ==
  /\ ~(capPc = "get" /\ QueueEmpty(frame_queue))
  /\ ~(capPc = "put" /\ QueueFull(frame_queue))

\* C3: get_frame never waits for a frame: no caller is at its get() with
\* the queue empty.
C3_GetFrameNeverWaits ==
  \A c \in Callers : ~(conPc[c] = "get" /\ QueueEmpty(frame_queue))

C6_JoinedBeforeDeviceRelease ==
  (relPc \in {"devrel", "done"} \/ capState = "released") => capPc = "exit"

\* C6 witness: the device was released after frames had been captured.
C6_Witness ==
  relPc = "done" /\ capState = "released" /\ acquired > 0 /\ ~running

(***************************************************************************)
(* Claims about Chassis (mods/Chassis.py), checked under SpecChassis.      *)
(***************************************************************************)
\* SELF_TEST_COMPLETE was read from the link and GYRO_CALIBRATED after it
HandshakeObserved(link) ==
  \E i, j \in 1..Len(link) :
    /\ i < j
    /\ link[i] = Rx("SELF_TEST_COMPLETE")
    /\ link[j] = Rx("GYRO_CALIBRATED")

\* C7 (as claimed): for any sequence of public Chassis operations and
\* device responses, gyro_calibrated is true only after SELF_TEST_COMPLETE
\* and then GYRO_CALIBRATED have been observed, in that order.
C7_CalibratedOnlyAfterBoth ==
  gyro_calibrated => HandshakeObserved(chassisLink)

\* Along self_test alone the order is kept: gyro_calibrated is true only
\* after GYRO_CALIBRATED has been observed in reply to a CALIBRATE_GYRO
\* command, and as long as calibrate_gyro has only been run through
\* self_test, only after SELF_TEST_COMPLETE and then GYRO_CALIBRATED.
SelfTestKeepsOrder ==
  gyro_calibrated =>
    /\ \E i, j \in 1..Len(chassisLink) :
         /\ i < j
         /\ chassisLink[i] = Tx("CALIBRATE_GYRO", 0)
         /\ chassisLink[j] = Rx("GYRO_CALIBRATED")
    /\ ~directCalibrate => HandshakeObserved(chassisLink)

\* C8: on every execution path of the control programs no TURN command is
\* written to the chassis serial link before the calibration handshake
\* (SELF_TEST_COMPLETE, then GYRO_CALIBRATED) has completed.
C8_NoTurnBeforeCalibration ==
  \A k \in 1..Len(chassisLink) :
    (chassisLink[k].dir = "tx" /\ chassisLink[k].data = "TURN")
      => HandshakeObserved(SubSeq(chassisLink, 1, k - 1))

\* C9: whenever the fire output is asserted, in that cycle the gun axis
\* passed its aim-lock test and the chassis axis passed its aim-lock test
\* (the commanded chassis correction is within the aim tolerance).
C9_FireOnlyWhenBothAimed ==
  (fcsPc = "firing" /\ fire_pin = 1) => (aimed /\ ChassisAimed(chassis_angle))

\* C10: in any of the control loops, a target that has been seen fewer than
\* 2 times never causes a fire pulse: whenever the fire output is asserted,
\* the chosen target has appeared in at least 2 detector results.
C10_FireOnlySeenTwice ==
  (mainPc = "firing" /\ fire_pin = 1)
    => (best_target # 0 /\ sightings[best_target] >= 2)

\* C11: over any run of consecutive cycles in which the lock condition
\* stays true, exactly one fire pulse is issued: the number of pulses of
\* the current run of locked cycles never exceeds one.
C11_OnePulsePerLock ==
  pulses <= 1

\* C12: at the end of every cycle in which no target was detected or the
\* target's angles were outside the aim threshold, target_locked is false.
C12_UnlockedWithoutTarget ==
  (mainPc = "top" /\ lastCycle \in {"search", "unlocked"}) => ~target_locked

\* C13: in every main-loop cycle that finds no eligible target the
\* controller commands the chassis to the next search heading: the step of
\* _process_detections that finds no stable target writes a TURN command.
C13_EmptyCycleSearches ==
  [][(fcsPc = "process" /\ fcsPc' # "process"
        /\ StableTargets(detections, 700) = <<>>)
       => /\ Len(chassisLink') = Len(chassisLink) + 1
          /\ chassisLink'[Len(chassisLink')].data = "TURN"]_vars

\* the track ids of a list of detections
DetectedIds(dets) == {dets[k].id : k \in 1..Len(dets)}

\* C14: after each detect call and the cycle's cleanup, track_history
\* contains no track_id that was absent from that batch's detections.
C14_EvictedWhenNotReconfirmed ==
  [][(fcsPc = "cleanup" /\ fcsPc' = "top")
       => DOMAIN track_history' \subseteq DetectedIds(detections)]_vars

\* the number of samples track_history held for detection k of the batch
\* dets at the time its stability was computed, th being the history
\* before the detect call
SamplesAt(th, dets, k) ==
  LET before == IF dets[k].id \in DOMAIN th THEN Len(th[dets[k].id]) ELSE 0
      inBatch == Cardinality({j \in 1..k : dets[j].id = dets[k].id})
  IN  Min(HISTORY_CAP, before + inBatch)

\* C15: the stability reported for a detection is exactly 0 whenever its
\* track has fewer than 2 recorded samples at the time of the computation.
C15_ZeroStabilityBelowTwoSamples ==
  [][(fcsPc = "detect" /\ fcsPc' = "process")
       => \A k \in 1..Len(detections') :
            SamplesAt(track_history, detections', k) < 2
              => detections'[k].stability = 0]_vars

\* C15 witness: detect has reported track 1 on a first sighting, after
\* more than the track timeout has passed, with stability 0.
C15_Witness ==
  /\ fcsPc = "process"
  /\ cycles = 2
  /\ now > TRACK_TIMEOUT
  /\ detections # <<>>
  /\ detections[1].id = 1
  /\ Len(track_history[1]) = 1
  /\ detections[1].stability = 0

\* four times the squared pixel distance of the centre of bbox to the
\* centre of the 1280 x 720 image of FireControlSystem
FcsDistance2(bbox) ==
  (bbox[1] + bbox[3] - 1280) * (bbox[1] + bbox[3] - 1280)
    + (bbox[2] + bbox[4] - 720) * (bbox[2] + bbox[4] - 720)

\* C16: the selected target is, among the eligible targets of the batch,
\* one at minimum distance from the image centre.
C16_SelectsNearest ==
  target # <<>> =>
    \A k \in 1..Len(StableTargets(detections, 700)) :
      FcsDistance2(target[1].bbox)
        <= FcsDistance2(StableTargets(detections, 700)[k].bbox)

\* the lowest track id among the class-0 detections of dets that are at
\* the minimum distance from the image centre (0 when there is none)
LowestIdNearest(dets) ==
  LET eligible == {k \in 1..Len(dets) : dets[k].cls = 0}
      nearest == {k \in eligible :
                    \A j \in eligible : Distance2(dets[k].bbox) <= Distance2(dets[j].bbox)}
  IN  IF nearest = {} THEN 0
      ELSE CHOOSE i \in {dets[k].id : k \in nearest} :
             \A k \in nearest : i <= dets[k].id

\* C17: when several targets are at the same minimum distance from the
\* image centre, process_detection selects the one with the lowest
\* track_id, whatever the order in which the detector listed them.
C17_TieToLowestId ==
  [][(mainPc = "average" /\ mainPc' # "average"
        /\ Nearest(Flatten(detection_queue), <<>>) # <<>>)
       => best_target' = LowestIdNearest(Flatten(detection_queue))]_vars

\* C18: every TURN value written to the chassis link is within
\* [-180, 180] degrees and every gun move_to target is within [-30, 30]
\* degrees times steps_per_degree.
C18_CommandsWithinRange ==
  /\ \A k \in 1..Len(chassisLink) :
       (chassisLink[k].dir = "tx" /\ chassisLink[k].data = "TURN")
         => (Deg(MIN_ANGLE) <= chassisLink[k].arg /\ chassisLink[k].arg <= Deg(MAX_ANGLE))
  /\ Abs(gunSteps) <= 30 * STEPS_PER_DEGREE

C20_ControlGunSynchronous ==
  mainPc = "lock_check" => controlGun = "in_position"

\* C21: the calibration handshake's waits are bounded: for every device
\* behaviour, including a device that has fallen silent, a wait for a
\* sentinel in self_test or calibrate_gyro eventually returns.
C21_WaitsReturn ==
  (chPc \in {"st_wait", "cal_wait"} /\ linkSilent) ~> (chPc = "idle")


(***************************************************************************)
(* Claims about shutdown (FireControlSystem.cleanup), checked under        *)
(* SpecShutdown.                                                           *)
(***************************************************************************)

\* the positions in shutdownLog at which cleanup did the given thing
LogPositions(event) ==
  {i \in 1..Len(shutdownLog) : shutdownLog[i] = event}

\* C22: cleanup joins the acquisition thread, then stops and disables the
\* actuators, then releases the capture device, then releases the
\* transport: no actuator stop is issued before the acquisition thread has
\* been joined, and the release of the links comes last.
C22_ShutdownOrder ==
  /\ \A i \in LogPositions("gun_stop") :
       \E j \in LogPositions("camera_join") : j < i
  /\ \A i \in LogPositions("camera_release") :
       \E j \in LogPositions("gun_stop") : j < i
  /\ \A i \in LogPositions("devices_close") : i = Len(shutdownLog)

\* C23: when cleanup issues the stop and disable commands on the gun link,
\* or closes the serial handles, the main-loop thread has ended, also when
\* the join in stop() timed out or stop() had been called before.
C23_LoopEndedBeforeRelease ==
  [][(\/ cleanupPc = "gun" /\ cleanupPc' = "camera"
      \/ cleanupPc = "devices" /\ cleanupPc' = "done")
     => LoopThreadEnded]_vars

\* C24: cleanup runs every release step on every exit path: once cleanup
\* has returned or raised, the gun has been stopped, the capture device
\* released and every registered device closed, whether or not an earlier
\* step failed and whether or not a video sender was configured.
C24_EveryStepRuns ==
  cleanupPc \in {"done", "failed"} =>
    /\ LogPositions("gun_stop") # {}
    /\ capState = "released"
    /\ \A name \in DOMAIN devices : ~devices[name].open


(***************************************************************************)
(* Claims about the control loops and their error handling.                *)
(***************************************************************************)

\* C25: a bad iteration is absorbed and the loop goes on; a detector failure
\* counts as zero detections.  In run() of main.py: a detection task that
\* ends without having seen a target, because it failed or because it found
\* nothing, leaves run() the detections that an empty result leaves it.
C25_DetectorFailureCountsAsEmpty ==
  [][(pendingTasks' < pendingTasks /\ sightings' = sightings)
     => Flatten(detection_queue') = Flatten(DequeAppend(detection_queue, <<>>))]_vars


(***************************************************************************)
(* Claims about VideoStreamSender (mods/TCP.py), checked under SpecSender. *)
(***************************************************************************)

\* the frames sendall wrote in full, in order
FramesSent == SelectSeq(wire, LAMBDA w : w.sent = "all")

\* C26: the frames sent carry the sequence numbers 0, 1, 2, ... in order,
\* and sequence is the number of frames sent: a successful send_frame adds
\* one, a send_frame that fails or rejects its input adds nothing.
C26_SequenceCountsSentFrames ==
  /\ sequence = Len(FramesSent)
  /\ \A i \in 1..Len(FramesSent) : FramesSent[i].seq = i - 1

\* two frames sent with a failed send_frame and a reconnect between them
C26_Witness ==
  /\ sequence = 2
  /\ Len(wire) = 3
  /\ wire[2].sent = "part"
  /\ wire[3].sock > wire[2].sock

\* C27: after a transport failure in send_frame the sender is disconnected,
\* and every later write goes to a socket created after the failure: the
\* next send_frame connects anew before it writes, and writes nothing when
\* that connect fails.
C27_ReconnectBeforeWrite ==
  /\ \A i, j \in 1..Len(wire) :
       (i < j /\ wire[i].sent # "all") => wire[j].sock > wire[i].sock
  /\ (wire # <<>> /\ wire[Len(wire)].sent # "all")
       => (~connected \/ sock > wire[Len(wire)].sock)
  /\ (sendRet = "False" /\ sock = 0) => wire = <<>>

\* a send fails on the first socket, the reconnect on a second socket is
\* refused, and the frame goes out on a third
C27_Witness ==
  /\ Len(wire) = 2
  /\ wire[1].sent = "none"
  /\ wire[1].sock = 1
  /\ wire[2].sent = "all"
  /\ wire[2].sock = 3
  /\ sendRet = "True"


(***************************************************************************)
(* Claims about the tracker's eviction and the fire pin, checked under     *)
(* SpecFCS.                                                                *)
(***************************************************************************)

\* the age of the last sample of track k at the present time
LastSampleAge(k) == now - track_history[k][Len(track_history[k])].t

\* C28: cleanup_tracks removes exactly the tracks whose last sample is older
\* than 5 seconds and leaves every other track and its history unchanged.
C28_EvictsExactlyStale ==
  [][(fcsPc = "cleanup" /\ fcsPc' = "top")
     => /\ DOMAIN track_history' =
             {k \in DOMAIN track_history : LastSampleAge(k) <= TRACK_TIMEOUT}
        /\ \A k \in DOMAIN track_history' : track_history'[k] = track_history[k]]_vars

\* after the second cleanup_tracks: the track created with id 0 in the
\* first cycle is gone, the track sampled in the second cycle is kept
C28_Witness ==
  /\ fcsPc = "top"
  /\ cycles = 2
  /\ now > TRACK_TIMEOUT
  /\ next_id = 1
  /\ DOMAIN track_history = {2}
  /\ track_history[2][1].t = now


\* C29: the fire pin is HIGH only while a fire operation is in progress:
\* whenever Gun.fire has finished, normally or with an error, the pin is LOW.
C29_PinHighOnlyWhileFiring ==
  fire_pin = 1 => fcsPc = "firing"


(***************************************************************************)
(* Claim about the ownership of the hardware channels, checked under       *)
(* SpecShutdown.                                                           *)
(***************************************************************************)

\* C30: each hardware channel has one owner: at most one open capture
\* handle exists on the camera, and no two registry entries hold the same
\* channel.
C30_OneOwnerPerChannel ==
  /\ OpenHandles(CameraChannel) <= 1
  /\ \A n1, n2 \in DOMAIN devices :
       devices[n1].channel = devices[n2].channel => n1 = n2


(***************************************************************************)
(* Claims about the pixel-to-angle conversions, checked under SpecAngles.  *)
(***************************************************************************)

\* both target centres lie in a frame of the given size
InFrame(width, height) ==
  /\ pixel[1] <= width /\ pixel'[1] <= width
  /\ pixel[2] <= height /\ pixel'[2] <= height

\* from one conversion to the next: the horizontal angle grows with cx and
\* the vertical angle grows as cy falls
MonotoneInverted(impl) ==
  /\ pixel'[1] > pixel[1] => converted'[impl][1] > converted[impl][1]
  /\ pixel'[2] < pixel[2] => converted'[impl][2] > converted[impl][2]

\* C31: in every implementation used by a control loop, x_angle strictly
\* increases as cx increases and y_angle, the gun elevation command,
\* strictly increases as cy decreases, for all target centres in the frame.
C31_MonotoneInvertedAxis ==
  [][(pixel # <<>> /\ pixel' # <<>>)
     => /\ InFrame(IMAGE_WIDTH, IMAGE_HEIGHT) => MonotoneInverted("main")
        /\ InFrame(DEFAULT_WIDTH, DEFAULT_HEIGHT) => MonotoneInverted("fcs")
        /\ InFrame(DEFAULT_WIDTH, DEFAULT_HEIGHT) => MonotoneInverted("mc")]_vars

\* C32: a target whose bbox centre is the image centre converts to (0, 0)
\* in every implementation used by a control loop.
C32_CentreIsZero ==
  /\ pixel = <<IMAGE_WIDTH \div 2, IMAGE_HEIGHT \div 2>>
       => converted.main = <<0, 0>>
  /\ pixel = <<DEFAULT_WIDTH \div 2, DEFAULT_HEIGHT \div 2>>
       => (converted.fcs = <<0, 0>> /\ converted.mc = <<0, 0>>)


(***************************************************************************)
(* Claims about the construction and release of Camera (mods/Cap.py).      *)
(***************************************************************************)

\* C33: under every interleaving of Camera.__init__ with the capture thread
\* it starts, frame_count, start_time and logger are assigned before the
\* thread first uses them: the thread never reads an unassigned field.
C33_FieldsAssignedBeforeUse ==
  newFault = "none"


\* C34: Camera.release always terminates: once running is cleared and
\* release waits in join, the capture thread leaves its loop, the join
\* completes and release returns.
C34_ReleaseTerminates ==
  (relPc = "join") ~> (relPc = "done")


(***************************************************************************)
(* Claim about the main-loop threads of FireControlSystem, checked under   *)
(* SpecRestart.                                                            *)
(***************************************************************************)

\* the main-loop threads alive: the one self.thread names, and the earlier
\* ones
AliveLoops ==
  staleLoops + (IF fcsPc \in {"none", "exit"} THEN 0 ELSE 1)

\* C35: at any time at most one main-loop thread is alive, for every
\* sequence of start() and stop() calls, also when stop() returned after
\* its join timed out and start() follows.
C35_OneLoopThread ==
  AliveLoops <= 1

\* a stopped system whose main-loop thread is still in the wait of
\* Gun.adjust is started again and gets a second main-loop thread
C35_Restarted ==
  restarts > 0 /\ fcsPc = "top" /\ staleLoops = 1

(***************************************************************************)
(* Claim about Gun.adjust and Gun.is_aimed, checked under SpecGun.         *)
(***************************************************************************)

\* C36: is_aimed returns true only if the most recent adjust completed
\* normally; after an adjust that failed part-way (target_angle set,
\* current_angle not) is_aimed returns false until a later adjust succeeds.
C36_AimedOnlyAfterCompletedAdjust ==
  aimedRet = "true" => lastAdjust # "failed"

(***************************************************************************)
(* Claims about the track history of FireControl, checked under            *)
(* SpecTracker.                                                            *)
(***************************************************************************)

\* C37: after any sequence of detect and cleanup_tracks calls every entry
\* of the track history holds at least 1 and at most 10 samples, ordered
\* by non-decreasing timestamp.
C37_EntriesBoundedAndOrdered ==
  \A k \in DOMAIN track_history :
    /\ Len(track_history[k]) >= 1
    /\ Len(track_history[k]) <= HISTORY_CAP
    /\ \A i \in 1..(Len(track_history[k]) - 1) :
         track_history[k][i].t <= track_history[k][i + 1].t

\* C37 witness: after detect calls at different times a track holds 10
\* samples, the oldest older than the newest, next to a track holding one
C37_Witness ==
  /\ \E k \in DOMAIN track_history :
       /\ Len(track_history[k]) = HISTORY_CAP
       /\ track_history[k][1].t < track_history[k][HISTORY_CAP].t
  /\ \E k \in DOMAIN track_history : Len(track_history[k]) = 1

\* C38: an id that detect takes from next_id for a box without an id is
\* never the id of a track already present in the track history.
C38_FallbackIdIsFresh ==
  [][\A k \in next_id..(next_id' - 1) : k \notin DOMAIN track_history]_vars

(***************************************************************************)
(* Claim about the mode flags of main.py, checked under SpecMain.          *)
(***************************************************************************)

\* C39: at the end of every cycle of run() search_mode is true exactly
\* when that cycle found no target, and search_mode and target_locked are
\* never both true.
C39_SearchModeIffNoTarget ==
  (mainPc = "top" /\ lastCycle # "none") =>
    /\ search_mode <=> (lastCycle = "search")
    /\ ~(search_mode /\ target_locked)

(***************************************************************************)
(* Claim about StepperDebugTool._connect_to_port, checked under SpecTool.  *)
(***************************************************************************)

\* C40: _connect_to_port succeeds on a healthy device: when the port opens
\* and the device answers the in-position query, the call returns True and
\* leaves is_connected true.
C40_ConnectsToHealthyDevice ==
  [][(toolPc = "validate" /\ toolTarget.kind = "healthy")
       => (toolPc' = "idle" /\ connectRet' = "true" /\ is_connected')]_vars

====
